---- MODULE Spec2Model ----
(***************************************************************************)
(* A model of scripts/audit-project.py: the tree walk and line             *)
(* classification of CodeScanner, the detectors that ProjectAuditor.run    *)
(* applies to the scanned file list, and the report step.                  *)
(*                                                                         *)
(* Text is a sequence of one-character strings.  Indices that the code     *)
(* computes (str.find, str.rfind, match.start, slices) are kept 0-based,   *)
(* as in Python; the operators under "Python text" convert.                *)
(***************************************************************************)
EXTENDS Integers, Sequences, FiniteSets, TLC

(***************************************************************************)
(* Bounds of the model                                                     *)
(***************************************************************************)
MaxDepth == 2          \* directory levels below the root in walked trees
MaxWalkFiles == 2      \* files in a walked tree
MaxLines == 3          \* lines of a classified file
MaxRuns == 2           \* times main is started on the same root
MaxRunFiles == 2       \* files in the tree of a whole run
MaxSourceFiles == 3    \* files that hold functions
MaxReportFiles == 6    \* files of one or two lines
MaxDupLines == 2       \* lines of the first file given to the duplication scanner
MaxCountDepth == 1     \* directory levels below the root in counted trees
MaxCountFiles == 3     \* files in a counted tree

(***************************************************************************)
(* Python text                                                             *)
(***************************************************************************)
Whitespace == {" ", "\t", "\n", "\r", "\f"}

LowerSeq ==
  <<"a","b","c","d","e","f","g","h","i","j","k","l","m",
    "n","o","p","q","r","s","t","u","v","w","x","y","z">>

UpperSeq ==
  <<"A","B","C","D","E","F","G","H","I","J","K","L","M",
    "N","O","P","Q","R","S","T","U","V","W","X","Y","Z">>

Lower == {LowerSeq[k] : k \in 1..26}

Upper == {UpperSeq[k] : k \in 1..26}

\* the case folding of re.IGNORECASE
fold(c) == IF c \in Upper THEN LowerSeq[CHOOSE k \in 1..26 : UpperSeq[k] = c] ELSE c

Digit == {"0","1","2","3","4","5","6","7","8","9"}

\* \w of the re module
WordChars == Lower \cup Upper \cup Digit \cup {"_"}

SetMin(S) == CHOOSE x \in S : \A y \in S : x <= y

SetMax(S) == CHOOSE x \in S : \A y \in S : x >= y

\* s[a:b] with Python's clamping and negative indices
PySlice(s, a, b) ==
  LET n == Len(s)
      lo == IF a < 0 THEN (IF a + n < 0 THEN 0 ELSE a + n) ELSE (IF a > n THEN n ELSE a)
      hi == IF b < 0 THEN (IF b + n < 0 THEN 0 ELSE b + n) ELSE (IF b > n THEN n ELSE b)
  IN IF lo >= hi THEN << >> ELSE SubSeq(s, lo + 1, hi)

\* s.startswith(p, at) for a 0-based offset at
StartsAt(s, p, at) ==
  /\ at >= 0
  /\ at + Len(p) <= Len(s)
  /\ \A k \in 1..Len(p) : s[at + k] = p[k]

\* the literal p at offset at, letters compared without case
StartsAtI(s, p, at) ==
  /\ at >= 0
  /\ at + Len(p) <= Len(s)
  /\ \A k \in 1..Len(p) : fold(s[at + k]) = p[k]

\* the offset after the longest run of characters of class C that starts at offset at
RunEnd(s, C, at) ==
  LET stops == {j \in at..(Len(s) - 1) : s[j + 1] \notin C}
  IN IF at >= Len(s) THEN at
     ELSE IF s[at + 1] \notin C THEN at
     ELSE IF stops = {} THEN Len(s) ELSE SetMin(stops)

\* the offset after the longest run of characters outside C that starts at offset at
RunEndNot(s, C, at) ==
  LET stops == {j \in at..(Len(s) - 1) : s[j + 1] \in C}
  IN IF at >= Len(s) THEN at
     ELSE IF s[at + 1] \in C THEN at
     ELSE IF stops = {} THEN Len(s) ELSE SetMin(stops)

\* \b at offset at
WordBoundary(s, at) ==
  LET before == at >= 1 /\ at <= Len(s) /\ s[at] \in WordChars
      after == at >= 0 /\ at < Len(s) /\ s[at + 1] \in WordChars
  IN before # after

\* s.find(p, from): lowest 0-based index >= from where p occurs, else -1
PyFind(s, p, from) ==
  LET hits == {i \in from..(Len(s) - Len(p)) : StartsAt(s, p, i)}
  IN IF hits = {} THEN -1 ELSE SetMin(hits)

\* s.rfind(p, 0, end): highest 0-based index where p occurs inside s[0:end], else -1
PyRFind(s, p, end) ==
  LET hits == {i \in 0..(end - Len(p)) : StartsAt(s, p, i)}
  IN IF hits = {} THEN -1 ELSE SetMax(hits)

\* s.strip()
strip(s) ==
  LET keep == {i \in 1..Len(s) : s[i] \notin Whitespace}
  IN IF keep = {} THEN << >> ELSE SubSeq(s, SetMin(keep), SetMax(keep))

\* s.startswith(tuple of prefixes)
startswith(s, prefixes) == \E p \in prefixes : StartsAt(s, p, 0)

\* s.count(p): non-overlapping occurrences, scanning left to right
RECURSIVE CountFrom(_, _, _)
CountFrom(s, p, from) ==
  LET i == PyFind(s, p, from)
  IN IF i < 0 THEN 0 ELSE 1 + CountFrom(s, p, i + Len(p))

count(s, p) ==
  IF Len(p) = 1 THEN Cardinality({i \in 1..Len(s) : s[i] = p[1]}) ELSE CountFrom(s, p, 0)

\* the elements of a set of numbers in increasing order
Ascending(S) ==
  LET ranked == {<< Cardinality({y \in S : y < x}) + 1, x >> : x \in S}
  IN [k \in 1..Cardinality(S) |-> (CHOOSE p \in ranked : p[1] = k)[2]]

\* f.readlines(): the text cut after every newline, terminators kept
readlines(content) ==
  LET ends == Ascending({i \in 1..Len(content) : content[i] = "\n" \/ i = Len(content)})
  IN [k \in 1..Len(ends) |-> SubSeq(content, IF k = 1 THEN 1 ELSE ends[k - 1] + 1, ends[k])]

RECURSIVE Flatten(_)
Flatten(ss) == IF ss = << >> THEN << >> ELSE Head(ss) \o Flatten(Tail(ss))

RECURSIVE SumSeq(_)
SumSeq(ns) == IF ns = << >> THEN 0 ELSE Head(ns) + SumSeq(Tail(ns))

\* '\n'.join(ls)
RECURSIVE JoinLines(_)
JoinLines(ls) ==
  IF ls = << >> THEN << >>
  ELSE IF Len(ls) = 1 THEN Head(ls)
  ELSE Head(ls) \o <<"\n">> \o JoinLines(Tail(ls))

\* s[:n]
Take(s, n) == SubSeq(s, 1, IF Len(s) < n THEN Len(s) ELSE n)

Range(s) == {s[i] : i \in DOMAIN s}

\* the orders in which a directory listing can come back
Orders(S) == {q \in [1..Cardinality(S) -> S] : Range(q) = S}

(***************************************************************************)
(* Config                                                                  *)
(***************************************************************************)
EXCLUDE_DIRS ==
  {"node_modules", "dist", "build", "coverage", ".git", "logs",
   "__pycache__", "venv", "scripts"}

EXCLUDE_FILES == {"package-lock.json", "yarn.lock", "pnpm-lock.yaml", "test-server.ts"}

\* the extensions the detectors read: f.extension in ['.ts', '.js']
SourceExts == {".ts", ".js"}

(***************************************************************************)
(* The file system under the audited root.  A path is the sequence of its  *)
(* components relative to the root; fs maps the path of every regular file *)
(* to its decoded text and whether open() succeeds on it.  Directories are *)
(* the proper prefixes of the file paths.                                  *)
(***************************************************************************)
\* pathlib's Path.suffix over the names of the model
suffix(name) ==
  CASE name \in {"x.ts", "y.ts", "w.ts", "u.ts", "test-server.ts"} -> ".ts"
    [] name \in {"z.js", "v.js", "t.js", "s.js"} -> ".js"
    [] name \in {"r.md"} -> ".md"
    [] name \in {"package.json", "tsconfig.json"} -> ".json"
    [] name \in {"yarn.lock"} -> ".lock"
    [] name \in {"AUDIT_REPORT.txt"} -> ".txt"
    [] OTHER -> ""

IsPrefix(d, p) == Len(d) <= Len(p) /\ SubSeq(p, 1, Len(d)) = d

\* the regular files directly inside directory d
FilesIn(tree, d) == {p \in DOMAIN tree : Len(p) = Len(d) + 1 /\ IsPrefix(d, p)}

\* the names of the directories directly inside directory d
DirsIn(tree, d) == {p[Len(d) + 1] : p \in {q \in DOMAIN tree : Len(q) > Len(d) + 1 /\ IsPrefix(d, q)}}

VARIABLES
  root,             \* ProjectAuditor.root / CodeScanner.root: the parts of the root path
  fs,               \* the files under the root
  toolchain,        \* what each external tool does when its subprocess is run
  pc,               \* the step of ProjectAuditor.run, or of main, about to execute
  runNo,            \* how many times run, or a scan called alone, has been started
  todo,             \* os.walk: the directories still to be yielded, next first
  files,            \* CodeScanner.files
  stats_by_ext,     \* the dict CodeScanner.scan accumulates
  analyzed,         \* history: the paths analyze_file was called on
  descended,        \* history: the directories os.walk yielded
  security_issues,  \* SecurityScanner.issues
  quality,          \* the dict QualityScanner.scan returned
  complexity,       \* the dict ComplexityScanner.scan returned
  errors,           \* the dict ErrorHandlingScanner.scan returned
  performance,      \* the dict PerformanceScanner.scan returned
  documentation,    \* the dict DocumentationScanner.scan returned
  duplication,      \* the dict CodeDuplicationScanner.scan returned
  deps,             \* the dict DependencyAnalyzer.analyze returned
  eslint,           \* the dict ESLintScanner.scan returned
  npm_audit,        \* the dict NpmAuditScanner.scan returned
  depcheck,         \* the dict DepcheckScanner.scan returned
  npm_outdated,     \* the dict NpmOutdatedScanner.scan returned
  tsconfig,         \* the dict TypeScriptConfigScanner.scan returned
  largest,          \* generate: the local list of the largest files
  report,           \* the text ReportGenerator.generate returned, in a record
  history,          \* history: the counts of every run that wrote its report
  stats,            \* count-lines.py main: the dict of lines and files per extension
  total_lines,      \* count-lines.py main: total_lines
  total_files,      \* count-lines.py main: total_files
  counted           \* history: the paths count-lines.py main has counted

scanVars == << todo, files, stats_by_ext, analyzed, descended >>

patternVars == << errors, performance, documentation >>

toolVars == << eslint, npm_audit, depcheck, npm_outdated, tsconfig >>

lateVars == << duplication, deps, toolVars, largest, report, history >>

resultVars == << security_issues, quality, complexity, patternVars, lateVars >>

countVars == << stats, total_lines, total_files, counted >>

vars == << root, fs, toolchain, pc, runNo, scanVars, resultVars, countVars >>

(***************************************************************************)
(* CodeScanner                                                             *)
(***************************************************************************)
None == [none |-> TRUE]

Raised(exception) == [raised |-> exception]

\* an entry of fs
File(content, readable) == [content |-> content, readable |-> readable]

\* stats_by_ext before the first file
NoStats == [e \in {} |-> [lines |-> 0, files |-> 0, code |-> 0]]

\* should_skip(path): path is the absolute path, so path.parts holds the
\* root's own components as well as the relative ones
should_skip(parts) ==
  \/ \E i \in 1..Len(parts) : parts[i] \in EXCLUDE_DIRS
  \/ parts[Len(parts)] \in EXCLUDE_FILES

\* a byte, or a run of bytes, of a file that is no valid UTF-8
Undecodable == "0xFF"

\* open(..., encoding='utf-8', errors='ignore'): the bytes that cannot be
\* decoded are dropped and the others are read as text
decode_ignore(bytes) == SelectSeq(bytes, LAMBDA b : b # Undecodable)

is_blank(l) == strip(l) = << >>

\* a prefix tuple that also holds the empty string, which every line starts with
is_comment_any(l) == startswith(strip(l), {<<"/", "/">>, <<"#">>, <<"/", "*">>, << >>})

\* a line is a comment when it holds a comment opener anywhere
is_comment_anywhere(l) == count(l, <<"/", "/">>) + count(l, <<"#">>) + count(l, <<"/", "*">>) > 0

is_comment(l) == startswith(strip(l), {<<"/", "/">>, <<"#">>, <<"/", "*">>})

analyze_file(tree, relpath) ==
  IF ~tree[relpath].readable THEN None
  ELSE LET lines == readlines(decode_ignore(tree[relpath].content))
           total == Len(lines)
           blank == Len(SelectSeq(lines, is_blank))
           comment == Len(SelectSeq(lines, is_comment))
           code == total - blank - comment
       IN [path |-> relpath,
           lines |-> total,
           extension |-> IF suffix(relpath[Len(relpath)]) = "" THEN ".txt"
                         ELSE suffix(relpath[Len(relpath)]),
           code_lines |-> code,
           blank_lines |-> blank,
           comment_lines |-> comment]

\* the listing left as it came
prune_none(dirs) == dirs

\* dirs[:] = [d for d in dirs if d not in Config.EXCLUDE_DIRS]
prune(dirs) == SelectSeq(dirs, LAMBDA d : d \notin EXCLUDE_DIRS)

\* the body of "for file in files" for the files of one directory, in listing order
\* the three += on stats_by_ext[ext], without the one on 'code'
add_stats_without_code(acc_stats, st) ==
  LET old == IF st.extension \in DOMAIN acc_stats THEN acc_stats[st.extension]
             ELSE [lines |-> 0, files |-> 0, code |-> 0]
      new == [lines |-> old.lines + st.lines,
              code |-> old.code,
              files |-> old.files + 1]
  IN [e \in DOMAIN acc_stats \cup {st.extension} |->
        IF e = st.extension THEN new ELSE acc_stats[e]]

\* the three += on stats_by_ext[ext], a defaultdict, for the record st
add_stats(acc_stats, st) ==
  LET old == IF st.extension \in DOMAIN acc_stats THEN acc_stats[st.extension]
             ELSE [lines |-> 0, files |-> 0, code |-> 0]
      new == [lines |-> old.lines + st.lines,
              code |-> old.code + st.code_lines,
              files |-> old.files + 1]
  IN [e \in DOMAIN acc_stats \cup {st.extension} |->
        IF e = st.extension THEN new ELSE acc_stats[e]]

RECURSIVE scan_files(_, _, _, _, _)
scan_files(tree, rootparts, listing, acc_files, acc_stats) ==
  IF listing = << >> THEN [files |-> acc_files, stats |-> acc_stats]
  ELSE LET p == Head(listing)
           st == analyze_file(tree, p)
       IN IF should_skip(rootparts \o p) THEN
            scan_files(tree, rootparts, Tail(listing), acc_files, acc_stats)
          ELSE IF st # None /\ st.lines > 0 THEN
            scan_files(tree, rootparts, Tail(listing), Append(acc_files, st),
                       add_stats(acc_stats, st))
          ELSE scan_files(tree, rootparts, Tail(listing), acc_files, acc_stats)

\* One iteration of "for root, dirs, files in os.walk(self.root)": the walk
\* yields directory d with its listing, the loop body prunes the directory
\* names in place and handles the files, and the walk then descends into the
\* directories that are left, before any sibling of d.
WalkDir ==
  /\ pc = "walk"
  /\ todo # << >>
  /\ LET d == Head(todo)
     IN \E dl \in Orders(DirsIn(fs, d)), fl \in Orders(FilesIn(fs, d)) :
          LET r == scan_files(fs, root, fl, files, stats_by_ext)
              kept == prune(dl)
          IN /\ files' = r.files
             /\ stats_by_ext' = r.stats
             /\ analyzed' = analyzed \cup {fl[i] : i \in {j \in 1..Len(fl) : ~should_skip(root \o fl[j])}}
             /\ descended' = descended \cup {d}
             /\ todo' = [i \in 1..Len(kept) |-> Append(d, kept[i])] \o Tail(todo)
             /\ pc' = IF kept = << >> /\ Tail(todo) = << >> THEN "security" ELSE "walk"
  /\ UNCHANGED << countVars, root, toolchain, fs, runNo, resultVars >>

(***************************************************************************)
(* count-lines.py                                                          *)
(***************************************************************************)
COUNT_EXCLUDE_DIRS ==
  {"node_modules", "dist", "build", "coverage", ".git",
   ".next", "out", "__pycache__", ".pytest_cache", "venv"}

COUNT_EXCLUDE_FILES == {"package-lock.json", "yarn.lock", "pnpm-lock.yaml"}

\* stats before the first file
NoLineStats == [e \in {} |-> [lines |-> 0, files |-> 0]]

\* should_exclude, were the names of the files not looked at
should_exclude_dirs_only(parts) ==
  \E i \in 1..Len(parts) : parts[i] \in COUNT_EXCLUDE_DIRS

\* should_exclude(path): path is Path(root) / file, whose parts hold the
\* components of root_dir as well as the relative ones
should_exclude(parts) ==
  \/ \E i \in 1..Len(parts) : parts[i] \in COUNT_EXCLUDE_DIRS
  \/ parts[Len(parts)] \in COUNT_EXCLUDE_FILES

\* count_lines_in_file: len(f.readlines()) of the decoded text, 0 when
\* the file cannot be opened
count_lines_in_file(tree, relpath) ==
  IF ~tree[relpath].readable THEN 0
  ELSE Len(readlines(decode_ignore(tree[relpath].content)))

\* get_file_extension over the names of the model, none of which holds
\* 'docker-compose'
get_file_extension(name) ==
  IF suffix(name) = "" /\ name \in {"Dockerfile"} THEN ".dockerfile" ELSE suffix(name)

\* the body of "for file in files" of main for the files of one directory
RECURSIVE count_files(_, _, _, _)
count_files(tree, rootparts, listing, acc) ==
  IF listing = << >> THEN acc
  ELSE LET p == Head(listing)
           lines == count_lines_in_file(tree, p)
           ext == get_file_extension(p[Len(p)])
           old == IF ext \in DOMAIN acc.stats THEN acc.stats[ext] ELSE [lines |-> 0, files |-> 0]
       IN IF should_exclude(rootparts \o p) \/ lines = 0 THEN
            count_files(tree, rootparts, Tail(listing), acc)
          ELSE count_files(tree, rootparts, Tail(listing),
                 [stats |-> [e \in DOMAIN acc.stats \cup {ext} |->
                               IF e = ext THEN [lines |-> old.lines + lines, files |-> old.files + 1]
                               ELSE acc.stats[e]],
                  total_lines |-> acc.total_lines + lines,
                  total_files |-> acc.total_files + 1,
                  counted |-> acc.counted \cup {p}])

\* dirs[:] = [d for d in dirs if d not in EXCLUDE_DIRS]
count_prune(dirs) == SelectSeq(dirs, LAMBDA d : d \notin COUNT_EXCLUDE_DIRS)

\* One iteration of "for root, dirs, files in os.walk(root_dir)" of main
CountDir ==
  /\ pc = "count"
  /\ todo # << >>
  /\ LET d == Head(todo)
     IN \E dl \in Orders(DirsIn(fs, d)), fl \in Orders(FilesIn(fs, d)) :
          LET r == count_files(fs, root, fl,
                               [stats |-> stats, total_lines |-> total_lines,
                                total_files |-> total_files, counted |-> counted])
              kept == count_prune(dl)
          IN /\ stats' = r.stats
             /\ total_lines' = r.total_lines
             /\ total_files' = r.total_files
             /\ counted' = r.counted
             /\ todo' = [i \in 1..Len(kept) |-> Append(d, kept[i])] \o Tail(todo)
             /\ pc' = IF kept = << >> /\ Tail(todo) = << >> THEN "sorted_stats" ELSE "count"
  /\ UNCHANGED << root, toolchain, fs, runNo, files, stats_by_ext, analyzed, descended, resultVars >>

(***************************************************************************)
(* SecurityScanner                                                         *)
(***************************************************************************)
\* console\.(log|error|warn|info) at offset i: the offset after the match, or -1
re_console(s, i) ==
  IF ~StartsAtI(s, <<"c", "o", "n", "s", "o", "l", "e", ".">>, i) THEN -1
  ELSE IF StartsAtI(s, <<"l", "o", "g">>, i + 8) THEN i + 11
  ELSE IF StartsAtI(s, <<"e", "r", "r", "o", "r">>, i + 8) THEN i + 13
  ELSE IF StartsAtI(s, <<"w", "a", "r", "n">>, i + 8) THEN i + 12
  ELSE IF StartsAtI(s, <<"i", "n", "f", "o">>, i + 8) THEN i + 12
  ELSE -1

\* \beval\s*\( at offset i
re_eval(s, i) ==
  IF ~(WordBoundary(s, i) /\ StartsAtI(s, <<"e", "v", "a", "l">>, i)) THEN -1
  ELSE LET j == RunEnd(s, Whitespace, i + 4)
       IN IF StartsAt(s, <<"(">>, j) THEN j + 1 ELSE -1

\* (password|secret|api[_-]?key)\s*=\s*["'][^"']{10,}["'] at offset i
re_secret(s, i) ==
  LET word == IF StartsAtI(s, <<"p", "a", "s", "s", "w", "o", "r", "d">>, i) THEN i + 8
              ELSE IF StartsAtI(s, <<"s", "e", "c", "r", "e", "t">>, i) THEN i + 6
              ELSE IF StartsAtI(s, <<"a", "p", "i">>, i) THEN
                     (IF (StartsAt(s, <<"_">>, i + 3) \/ StartsAt(s, <<"-">>, i + 3))
                         /\ StartsAtI(s, <<"k", "e", "y">>, i + 4) THEN i + 7
                      ELSE IF StartsAtI(s, <<"k", "e", "y">>, i + 3) THEN i + 6
                      ELSE -1)
              ELSE -1
      eq == RunEnd(s, Whitespace, word)
      quote == RunEnd(s, Whitespace, eq + 1)
      Quotes == {"\"", "'"}
      close == RunEndNot(s, Quotes, quote + 1)
  IN IF word < 0 \/ ~StartsAt(s, <<"=">>, eq) THEN -1
     ELSE IF ~(quote < Len(s) /\ s[quote + 1] \in Quotes) THEN -1
     ELSE IF close - (quote + 1) >= 10 /\ close < Len(s) THEN close + 1
     ELSE -1

\* Config.SECURITY_PATTERNS, in the order of the dict
SECURITY_PATTERNS == <<"console.log", "eval", "hardcoded-secret">>

\* //\s*TODO and //\s*FIXME at offset i
re_marker(s, word, i) ==
  IF ~StartsAt(s, <<"/", "/">>, i) THEN -1
  ELSE LET j == RunEnd(s, Whitespace, i + 2)
       IN IF StartsAt(s, word, j) THEN j + Len(word) ELSE -1

\* @ts-ignore at offset i
re_ts_ignore(s, i) == IF StartsAt(s, <<"@", "t", "s", "-", "i", "g", "n", "o", "r", "e">>, i) THEN i + 10 ELSE -1

\* :\s*any\b at offset i
re_any(s, i) ==
  IF ~StartsAt(s, <<":">>, i) THEN -1
  ELSE LET j == RunEnd(s, Whitespace, i + 1)
       IN IF StartsAt(s, <<"a", "n", "y">>, j) /\ WordBoundary(s, j + 3) THEN j + 3 ELSE -1

\* the named pattern of Config tried at offset i: the offset after the match, or -1
re_match(name, s, i) ==
  CASE name = "console.log" -> re_console(s, i)
    [] name = "eval" -> re_eval(s, i)
    [] name = "hardcoded-secret" -> re_secret(s, i)
    [] name = "TODO" -> re_marker(s, <<"T", "O", "D", "O">>, i)
    [] name = "FIXME" -> re_marker(s, <<"F", "I", "X", "M", "E">>, i)
    [] name = "ts-ignore" -> re_ts_ignore(s, i)
    [] name = "any-type" -> re_any(s, i)

\* the matches re.finditer yields from offset i on, given the offsets at
\* which the pattern matches: left to right, each search resuming where the
\* previous match ended
RECURSIVE finditer_among(_, _, _, _)
finditer_among(name, s, starts, i) ==
  LET later == {j \in starts : j >= i}
  IN IF later = {} THEN << >>
     ELSE << [start |-> SetMin(later), end |-> re_match(name, s, SetMin(later))] >>
            \o finditer_among(name, s, starts, re_match(name, s, SetMin(later)))

\* re.finditer(pattern, content) from offset i on
finditer(name, s, i) ==
  finditer_among(name, s, {j \in i..(Len(s) - 1) : re_match(name, s, j) >= 0}, i)

\* the text the code takes for the line of a match that starts at offset start
match_line(content, start) ==
  LET line_start == PyRFind(content, <<"\n">>, start)
  IN PySlice(content, line_start, PyFind(content, <<"\n">>, start))

in_comment(line) == startswith(strip(line), {<<"/", "/">>, <<"#">>})

\* the issues one pattern adds for one file, were the snippet match.group()
pattern_issues_whole(name, relpath, content) ==
  LET ms == finditer(name, content, 0)
      kept == SelectSeq(ms, LAMBDA m : ~in_comment(match_line(content, m.start)))
  IN [k \in 1..Len(kept) |->
        [type |-> name, file |-> relpath,
         snippet |-> PySlice(content, kept[k].start, kept[k].end)]]

\* the issues one pattern adds for one file
pattern_issues(name, relpath, content) ==
  LET ms == finditer(name, content, 0)
      kept == SelectSeq(ms, LAMBDA m : ~in_comment(match_line(content, m.start)))
  IN [k \in 1..Len(kept) |->
        [type |-> name, file |-> relpath,
         snippet |-> PySlice(PySlice(content, kept[k].start, kept[k].end), 0, 40)]]

scan_file(tree, relpath) ==
  IF ~tree[relpath].readable THEN << >>
  ELSE Flatten([n \in 1..Len(SECURITY_PATTERNS) |->
                  pattern_issues(SECURITY_PATTERNS[n], relpath, tree[relpath].content)])

\* SecurityScanner.scan(files) on an instance whose issues list is issues
RECURSIVE security_scan(_, _, _)
security_scan(tree, fl, issues) ==
  IF fl = << >> THEN issues
  ELSE security_scan(tree, Tail(fl),
         IF Head(fl).extension \in SourceExts
         THEN issues \o scan_file(tree, Head(fl).path) ELSE issues)

\* run, step 2: a new SecurityScanner scans the file list
RunSecurity ==
  /\ pc = "security"
  /\ security_issues' = security_scan(fs, files, << >>)
  /\ pc' = "quality"
  /\ UNCHANGED << countVars, root, toolchain, fs, runNo, scanVars, quality, complexity, patternVars, lateVars >>

(***************************************************************************)
(* QualityScanner                                                          *)
(***************************************************************************)
MAX_FILE_LINES == 400

MAX_FUNCTION_LINES == 50

MAX_FUNCTION_PARAMS == 5

\* the entries "for f in files" appends to long_files
all_long_files(fl) ==
  LET over == SelectSeq(fl, LAMBDA f : f.code_lines > MAX_FILE_LINES)
  IN [k \in 1..Len(over) |-> [file |-> over[k].path, lines |-> over[k].code_lines]]

\* the files whose content the loop body reads without an exception
readable_sources(tree, fl) ==
  SelectSeq(fl, LAMBDA f : f.extension \in SourceExts /\ tree[f.path].readable)

\* one list entry per match of the pattern in the readable source files
RECURSIVE pattern_hits(_, _, _)
pattern_hits(name, tree, fl) ==
  IF fl = << >> THEN << >>
  ELSE LET ms == finditer(name, tree[Head(fl).path].content, 0)
       IN [k \in 1..Len(ms) |-> Head(fl).path] \o pattern_hits(name, tree, Tail(fl))

quality_scan(tree, fl) ==
  LET src == readable_sources(tree, fl)
      todos == pattern_hits("TODO", tree, src) \o pattern_hits("FIXME", tree, src)
  IN [todos |-> Cardinality(Range(todos)),
      ts_ignores |-> Len(pattern_hits("ts-ignore", tree, src)),
      any_types |-> Len(pattern_hits("any-type", tree, src)),
      long_files |-> Take(all_long_files(fl), 5)]

\* run, step 3
RunQuality ==
  /\ pc = "quality"
  /\ quality' = quality_scan(fs, files)
  /\ pc' = "complexity"
  /\ UNCHANGED << countVars, root, toolchain, fs, runNo, scanVars, security_issues, complexity, patternVars, lateVars >>

(***************************************************************************)
(* ComplexityScanner                                                       *)
(***************************************************************************)
NoMatch == [end |-> -1, name |-> << >>]

\* function\s+(\w+) at offset p
re_named_function(s, p) ==
  LET sp == RunEnd(s, Whitespace, p + 8)
      we == RunEnd(s, WordChars, sp)
  IN IF StartsAt(s, <<"f", "u", "n", "c", "t", "i", "o", "n">>, p) /\ sp > p + 8 /\ we > sp
     THEN [end |-> we, name |-> PySlice(s, sp, we)]
     ELSE NoMatch

\* (\w+)\s*\([^)]*\)\s* at offset p: the offset after it, or -1
re_call_head(s, p) ==
  LET we == RunEnd(s, WordChars, p)
      open == RunEnd(s, Whitespace, we)
      close == RunEndNot(s, {")"}, open + 1)
  IN IF we > p /\ StartsAt(s, <<"(">>, open) /\ close < Len(s)
     THEN RunEnd(s, Whitespace, close + 1) ELSE -1

\* (\w+)\s*\([^)]*\)\s*(?::\s*[^{]+)?\s*=> at offset p.  The annotation
\* group is greedy: when it takes part, the match ends at the last "=>" that
\* comes before the next "{" and leaves the group at least one character.
re_arrow_tail(s, p, u) ==
  LET brace == RunEndNot(s, {"{"}, u + 1)
      arrows == {g \in (u + 2)..(brace - 2) : StartsAt(s, <<"=", ">">>, g)}
      name == PySlice(s, p, RunEnd(s, WordChars, p))
  IN IF u < 0 THEN NoMatch
     ELSE IF StartsAt(s, <<"=", ">">>, u) THEN [end |-> u + 2, name |-> name]
     ELSE IF StartsAt(s, <<":">>, u) /\ arrows # {} THEN [end |-> SetMax(arrows) + 2, name |-> name]
     ELSE NoMatch

re_arrow(s, p) == re_arrow_tail(s, p, re_call_head(s, p))

\* \b(\w+)\s*\([^)]*\)\s*(?::\s*[^{]+)?\s*\{ at offset p
re_method_tail(s, p, u) ==
  LET brace == RunEndNot(s, {"{"}, u + 1)
      name == PySlice(s, p, RunEnd(s, WordChars, p))
  IN IF u < 0 \/ ~WordBoundary(s, p) THEN NoMatch
     ELSE IF StartsAt(s, <<"{">>, u) THEN [end |-> u + 1, name |-> name]
     ELSE IF StartsAt(s, <<":">>, u) /\ brace >= u + 2 /\ brace < Len(s)
          THEN [end |-> brace + 1, name |-> name]
     ELSE NoMatch

re_method(s, p) == re_method_tail(s, p, re_call_head(s, p))

\* a | b of a pattern: the first alternative's match, else the second's
or_else(a, b) == IF a.end >= 0 THEN a ELSE b

\* the three alternatives of func_pattern at offset p, in their order
re_func_alternatives(s, p) ==
  or_else(re_named_function(s, p), or_else(re_arrow(s, p), re_method(s, p)))

\* func_pattern at offset i: (?:async\s+)? and then the alternatives; when
\* they fail after the prefix, they are tried without it
func_pattern(s, i) ==
  LET sp == RunEnd(s, Whitespace, i + 5)
      prefixed == StartsAt(s, <<"a", "s", "y", "n", "c">>, i) /\ sp > i + 5
  IN or_else(IF prefixed THEN re_func_alternatives(s, sp) ELSE NoMatch,
             re_func_alternatives(s, i))

\* the matches re.finditer(func_pattern, content) yields from offset i on,
\* given the offsets at which func_pattern matches
RECURSIVE func_finditer_among(_, _, _)
\* the match m found at offset at, and the matches after its end
func_finditer_from(s, starts, at, m) ==
  << [start |-> at, end |-> m.end, name |-> m.name] >> \o func_finditer_among(s, starts, m.end)

func_finditer_among(s, starts, i) ==
  LET later == {j \in starts : j >= i}
  IN IF later = {} THEN << >>
     ELSE func_finditer_from(s, starts, SetMin(later), func_pattern(s, SetMin(later)))

\* re.finditer(func_pattern, content) from offset i on
func_finditer(s, i) ==
  func_finditer_among(s, {j \in i..(Len(s) - 1) : func_pattern(s, j).end >= 0}, i)

\* depth and in_function of _find_function_end once the loop has handled
\* the characters at offsets start..i
depth_after(content, start, i) ==
  Cardinality({j \in start..i : content[j + 1] = "{"})
    - Cardinality({j \in start..i : content[j + 1] = "}"})

in_function_after(content, start, i) == \E j \in start..i : content[j + 1] = "{"

\* _find_function_end, were the loop to run to the end of the content
_find_function_end_unbounded(content, start) ==
  LET limit == Len(content)
      returns == {i \in start..(limit - 1) :
                    /\ content[i + 1] = "}"
                    /\ in_function_after(content, start, i)
                    /\ depth_after(content, start, i) = 0}
  IN IF returns = {} THEN limit ELSE SetMin(returns) + 1

\* _find_function_end: the loop returns at the first "}" that finds
\* in_function set and brings depth to 0, else the window's end is returned
_find_function_end(content, start) ==
  LET limit == IF start + 5000 < Len(content) THEN start + 5000 ELSE Len(content)
      returns == {i \in start..(limit - 1) :
                    /\ content[i + 1] = "}"
                    /\ in_function_after(content, start, i)
                    /\ depth_after(content, start, i) = 0}
  IN IF returns = {} THEN limit ELSE SetMin(returns) + 1

\* the measures the loop body takes of one match
measure(content, m) ==
  LET param_section == PySlice(content, m.start, m.end)
      func_body == PySlice(content, m.start, _find_function_end(content, m.start))
  IN [function |-> m.name,
      params |-> IF count(param_section, <<"(">>) > 0 THEN count(param_section, <<",">>) + 1 ELSE 0,
      complexity |-> 1 + count(func_body, <<"i", "f", " ">>)
                       + count(func_body, <<"e", "l", "s", "e", " ">>)
                       + count(func_body, <<"c", "a", "s", "e", " ">>)
                       + count(func_body, <<"&", "&">>)
                       + count(func_body, <<"|", "|">>)
                       + count(func_body, <<"f", "o", "r", " ">>)
                       + count(func_body, <<"w", "h", "i", "l", "e", " ">>)
                       + count(func_body, <<"c", "a", "t", "c", "h", " ">>),
      lines |-> count(func_body, <<"\n">>)]

RECURSIVE measure_each(_, _)
measure_each(content, ms) ==
  IF ms = << >> THEN << >>
  ELSE << measure(content, Head(ms)) >> \o measure_each(content, Tail(ms))

measures(content) == measure_each(content, func_finditer(content, 0))

\* the entries appended to complex_functions, long_functions and many_params
complex_entries(sel) == [k \in 1..Len(sel) |-> [function |-> sel[k].function, complexity |-> sel[k].complexity]]

long_entries(sel) == [k \in 1..Len(sel) |-> [function |-> sel[k].function, lines |-> sel[k].lines]]

params_entries(sel) == [k \in 1..Len(sel) |-> [function |-> sel[k].function, params |-> sel[k].params]]

\* the three lists as the loop leaves them, given the measures of the matches
flagged_of(ms) ==
  [complex_functions |-> complex_entries(SelectSeq(ms, LAMBDA f : f.complexity > 10)),
   long_functions |-> long_entries(SelectSeq(ms, LAMBDA f : f.lines > MAX_FUNCTION_LINES)),
   many_params |-> params_entries(SelectSeq(ms, LAMBDA f : f.params > MAX_FUNCTION_PARAMS))]

\* the three lists as the loop of analyze_function_complexity leaves them
flagged(content) == flagged_of(measures(content))

\* the return statement: the first five entries of each list
first_five(found) ==
  [complex_functions |-> Take(found.complex_functions, 5),
   long_functions |-> Take(found.long_functions, 5),
   many_params |-> Take(found.many_params, 5)]

analyze_function_complexity(content) == first_five(flagged(content))

\* x put in front of the entries whose key equals its own
insert_desc_before_equal(sorted, x, key) ==
  LET k == Cardinality({j \in 1..Len(sorted) : sorted[j][key] > x[key]})
  IN SubSeq(sorted, 1, k) \o << x >> \o SubSeq(sorted, k + 1, Len(sorted))

\* where the stable sort puts x among entries already in non-increasing order
\* of key: after every entry whose key is not smaller
insert_desc(sorted, x, key) ==
  LET k == Cardinality({j \in 1..Len(sorted) : sorted[j][key] >= x[key]})
  IN SubSeq(sorted, 1, k) \o << x >> \o SubSeq(sorted, k + 1, Len(sorted))

\* sorted(entries, key=lambda x: x[key], reverse=True)
RECURSIVE sorted_desc_onto(_, _, _)
sorted_desc_onto(done, entries, key) ==
  IF entries = << >> THEN done
  ELSE sorted_desc_onto(insert_desc(done, Head(entries), key), Tail(entries), key)

sorted_desc(entries, key) == sorted_desc_onto(<< >>, entries, key)

\* the result of analyze_function_complexity for each file the loop reads
RECURSIVE analyze_each(_, _)
analyze_each(tree, fl) ==
  IF fl = << >> THEN << >>
  ELSE << analyze_function_complexity(tree[Head(fl).path].content) >> \o analyze_each(tree, Tail(fl))

\* all_complex, all_long or all_params after the loop over the files
extend_all(results, which) == Flatten([k \in 1..Len(results) |-> results[k][which]])

\* what scan makes of the lists once the loop over the files is over:
\* each is sorted, cut to ten entries and counted
complexity_result(results) ==
  LET all_complex == Take(sorted_desc(extend_all(results, "complex_functions"), "complexity"), 10)
      all_long == Take(sorted_desc(extend_all(results, "long_functions"), "lines"), 10)
      all_params == Take(sorted_desc(extend_all(results, "many_params"), "params"), 10)
  IN [complex_functions |-> all_complex,
      long_functions |-> all_long,
      many_params |-> all_params,
      total_complex |-> Len(all_complex),
      total_long |-> Len(all_long),
      total_params |-> Len(all_params)]

\* run, step 4: ComplexityScanner.scan
RunComplexity ==
  /\ pc = "complexity"
  /\ \E results \in {analyze_each(fs, readable_sources(fs, files))} :
       complexity' = complexity_result(results)
  /\ pc' = "errors"
  /\ UNCHANGED << countVars, root, toolchain, fs, runNo, scanVars, security_issues, quality, patternVars, lateVars >>

(***************************************************************************)
(* ErrorHandlingScanner, PerformanceScanner, DocumentationScanner          *)
(* Each scan reads the source files inside try/except and returns a dict   *)
(* of counts.  A pattern is an operator that gives, for a text and an      *)
(* offset, the offset after the match that starts there, or -1.            *)
(***************************************************************************)
\* word\s*\([^)]*\)\s*\{ at offset i
re_block_open(s, word, i) ==
  LET open == RunEnd(s, Whitespace, i + Len(word))
      close == RunEndNot(s, {")"}, open + 1)
      brace == RunEnd(s, Whitespace, close + 1)
  IN IF StartsAt(s, word, i) /\ StartsAt(s, <<"(">>, open) /\ close < Len(s)
        /\ StartsAt(s, <<"{">>, brace)
     THEN brace + 1 ELSE -1

\* catch\s*\([^)]*\)\s*\{\s*\} at offset i
re_empty_catch(s, i) ==
  LET body == RunEnd(s, Whitespace, re_block_open(s, <<"c", "a", "t", "c", "h">>, i))
  IN IF re_block_open(s, <<"c", "a", "t", "c", "h">>, i) >= 0 /\ StartsAt(s, <<"}">>, body) THEN body + 1 ELSE -1

\* catch\s*\([^)]*\)\s*\{\s*//\s*(ignore|skip) at offset i
re_catch_ignore(s, i) ==
  LET body == RunEnd(s, Whitespace, re_block_open(s, <<"c", "a", "t", "c", "h">>, i))
      word == RunEnd(s, Whitespace, body + 2)
  IN IF re_block_open(s, <<"c", "a", "t", "c", "h">>, i) < 0 \/ ~StartsAt(s, <<"/", "/">>, body) THEN -1
     ELSE IF StartsAt(s, <<"i", "g", "n", "o", "r", "e">>, word) THEN word + 6
     ELSE IF StartsAt(s, <<"s", "k", "i", "p">>, word) THEN word + 4
     ELSE -1

\* await\s at offset p
re_await(s, p) ==
  IF StartsAt(s, <<"a", "w", "a", "i", "t">>, p) /\ p + 5 < Len(s) /\ s[p + 6] \in Whitespace THEN p + 6 ELSE -1

\* a literal at offset p
re_literal(s, lit, p) == IF StartsAt(s, lit, p) THEN p + Len(lit) ELSE -1

\* new\s+RegExp\( at offset p
re_new_regexp(s, p) ==
  LET name == RunEnd(s, Whitespace, p + 3)
  IN IF StartsAt(s, <<"n", "e", "w">>, p) /\ name > p + 3 /\ StartsAt(s, <<"R", "e", "g", "E", "x", "p", "(">>, name) THEN name + 7 ELSE -1

\* for\s*\( at offset p
re_for_open(s, p) ==
  LET open == RunEnd(s, Whitespace, p + 3)
  IN IF StartsAt(s, <<"f", "o", "r">>, p) /\ StartsAt(s, <<"(">>, open) THEN open + 1 ELSE -1

\* what follows [^}]* in the patterns of the loops
re_inner(kind, s, p) ==
  CASE kind = "await-in-loop" -> re_await(s, p)
    [] kind = "sync-in-loop" -> re_literal(s, <<".", "s", "y", "n", "c", "(">>, p)
    [] kind = "regex-in-loop" -> re_new_regexp(s, p)
    [] kind = "nested-loops" -> re_for_open(s, p)
    [] kind = "array-push-loop" -> re_literal(s, <<".", "p", "u", "s", "h", "(">>, p)

\* for\s*\([^)]*\)\s*\{[^}]* and what follows it, at offset i: the greedy
\* [^}]* gives back characters until what follows matches
re_in_loop(kind, s, i) ==
  LET body == re_block_open(s, <<"f", "o", "r">>, i)
      at == {p \in body..RunEndNot(s, {"}"}, body) : re_inner(kind, s, p) >= 0}
  IN IF body < 0 \/ at = {} THEN -1 ELSE re_inner(kind, s, SetMax(at))

\* \.forEach\s*\(\s*async\s*\( at offset i
re_foreach_async(s, i) ==
  LET open == RunEnd(s, Whitespace, i + 8)
      word == RunEnd(s, Whitespace, open + 1)
      call == RunEnd(s, Whitespace, word + 5)
  IN IF StartsAt(s, <<".", "f", "o", "r", "E", "a", "c", "h">>, i) /\ StartsAt(s, <<"(">>, open)
        /\ StartsAt(s, <<"a", "s", "y", "n", "c">>, word) /\ StartsAt(s, <<"(">>, call)
     THEN call + 1 ELSE -1

\* await\s+[^;]+;\s* at offset i: \s+ leaves [^;]+ at least one character
re_await_statement(s, i) ==
  LET semi == RunEndNot(s, {";"}, i + 5)
  IN IF re_await(s, i) >= 0 /\ semi - (i + 5) >= 2 /\ semi < Len(s)
     THEN RunEnd(s, Whitespace, semi + 1) ELSE -1

\* (await\s+[^;]+;\s*){n,} at offset i, n >= 0: as many statements as follow
RECURSIVE re_awaits(_, _, _)
re_awaits(s, i, n) ==
  IF re_await_statement(s, i) >= 0 THEN re_awaits(s, re_await_statement(s, i), n - 1)
  ELSE IF n <= 0 THEN i ELSE -1

\* \.(find|findMany)\s*\([^)]*\) at offset i
re_query(s, i) ==
  LET call == IF StartsAt(s, <<"(">>, RunEnd(s, Whitespace, i + 5)) THEN RunEnd(s, Whitespace, i + 5)
              ELSE IF StartsAt(s, <<"M", "a", "n", "y">>, i + 5) THEN RunEnd(s, Whitespace, i + 9)
              ELSE -1
      close == RunEndNot(s, {")"}, call + 1)
  IN IF StartsAt(s, <<".", "f", "i", "n", "d">>, i) /\ call >= 0 /\ StartsAt(s, <<"(">>, call) /\ close < Len(s)
     THEN close + 1 ELSE -1

\* /\*\*[\s\S]*?\*/ at offset i: the comment ends at the first "*/" after "/**"
re_jsdoc(s, i) ==
  IF StartsAt(s, <<"/", "*", "*">>, i) /\ PyFind(s, <<"*", "/">>, i + 3) >= 0
  THEN PyFind(s, <<"*", "/">>, i + 3) + 2 ELSE -1

\* (?::\s*[^{]+)?\s*\{ at offset u, the offset after \w+\s*\([^)]*\)\s*
re_block_tail(s, u) ==
  LET brace == RunEndNot(s, {"{"}, u + 1)
  IN IF u < 0 THEN -1
     ELSE IF StartsAt(s, <<"{">>, u) THEN u + 1
     ELSE IF StartsAt(s, <<":">>, u) /\ brace >= u + 2 /\ brace < Len(s) THEN brace + 1
     ELSE -1

\* an optional prefix word\s+ at offset i: the offsets the rest of the
\* pattern is tried at, the one after the prefix first
after_optional(s, word, i) ==
  LET sp == RunEnd(s, Whitespace, i + Len(word))
  IN IF StartsAt(s, word, i) /\ sp > i + Len(word) THEN << sp, i >> ELSE << i >>

\* the first of the tries that succeeds, else -1
first_match(ends) ==
  IF \A k \in 1..Len(ends) : ends[k] < 0 THEN -1
  ELSE ends[SetMin({k \in 1..Len(ends) : ends[k] >= 0})]

\* (async\s+)?function\s+\w+ at offset i
re_doc_named(s, i) ==
  first_match([k \in 1..Len(after_optional(s, <<"a", "s", "y", "n", "c">>, i)) |->
                 re_named_function(s, after_optional(s, <<"a", "s", "y", "n", "c">>, i)[k]).end])

\* (?:async\s+)?\w+\s*\([^)]*\)\s*(?::\s*[^{]+)?\s*\{ at offset i
re_doc_async_block(s, i) ==
  first_match([k \in 1..Len(after_optional(s, <<"a", "s", "y", "n", "c">>, i)) |->
                 re_block_tail(s, re_call_head(s, after_optional(s, <<"a", "s", "y", "n", "c">>, i)[k]))])

\* (?:export\s+)?(?:async\s+)?\w+\s*\([^)]*\)\s*(?::\s*[^{]+)?\s*\{ at offset i
re_doc_block(s, i) ==
  first_match([k \in 1..Len(after_optional(s, <<"e", "x", "p", "o", "r", "t">>, i)) |->
                 re_doc_async_block(s, after_optional(s, <<"e", "x", "p", "o", "r", "t">>, i)[k])])

\* Config.DOC_PATTERNS['function'] at offset i
re_doc_function(s, i) ==
  IF re_doc_named(s, i) >= 0 THEN re_doc_named(s, i) ELSE re_doc_block(s, i)

\* the patterns of Config.ERROR_PATTERNS, PERFORMANCE_PATTERNS and
\* DOC_PATTERNS at offset i
re_advanced(name, s, i) ==
  CASE name = "empty-catch" -> re_empty_catch(s, i)
    [] name = "catch-ignore" -> re_catch_ignore(s, i)
    [] name = "foreach-async" -> re_foreach_async(s, i)
    [] name = "multiple-awaits" -> re_awaits(s, i, 3)
    [] name = "no-limit-query" -> re_query(s, i)
    [] name = "jsdoc" -> re_jsdoc(s, i)
    [] name = "function" -> re_doc_function(s, i)
    [] OTHER -> re_in_loop(name, s, i)

\* where the pattern ends for each offset of the text it is tried at
match_ends(name, s) == [i \in 0..(Len(s) - 1) |-> re_advanced(name, s, i)]

\* len(re.findall(pattern, content)): the matches are found left to right,
\* each search resuming where the previous match ended
RECURSIVE findall_count(_, _)
findall_count(ends, i) ==
  IF \A j \in DOMAIN ends : j < i \/ ends[j] < 0 THEN 0
  ELSE 1 + findall_count(ends, ends[SetMin({j \in DOMAIN ends : j >= i /\ ends[j] >= 0})])

\* re.search(pattern, content) finds a match
re_search(name, s) == \E i \in 0..(Len(s) - 1) : re_advanced(name, s, i) >= 0

\* the number of matches of the pattern in each file the loop reads
matches_in(name, tree, fl) ==
  [k \in 1..Len(fl) |-> findall_count(match_ends(name, tree[fl[k].path].content), 0)]

\* ErrorHandlingScanner.scan
error_scan(tree, fl) ==
  LET empty_catches == SumSeq(matches_in("empty-catch", tree, readable_sources(tree, fl)))
      ignored_catches == SumSeq(matches_in("catch-ignore", tree, readable_sources(tree, fl)))
  IN [empty_catches |-> empty_catches,
      ignored_catches |-> ignored_catches,
      total_issues |-> empty_catches + ignored_catches]

\* run, step 5
RunErrors ==
  /\ pc = "errors"
  /\ errors' = error_scan(fs, files)
  /\ pc' = "performance"
  /\ UNCHANGED << countVars, root, toolchain, fs, runNo, scanVars, security_issues, quality, complexity,
                  performance, documentation, lateVars >>

\* the kinds of PerformanceScanner, in the order of its lists
PERFORMANCE_PATTERNS ==
  << "await-in-loop", "sync-in-loop", "foreach-async", "regex-in-loop",
     "multiple-awaits", "nested-loops", "array-push-loop", "no-limit-query" >>

\* set(list) of the paths appended for one kind
files_with(name, tree, fl) ==
  {fl[k].path : k \in {j \in 1..Len(fl) : re_search(name, tree[fl[j].path].content)}}

\* the ASCII characters from the space to the underscore, in code order
Printable ==
  <<" ", "!", "\"", "#", "$", "%", "&", "'", "(", ")", "*", "+", ",", "-", ".", "/", "0", "1", "2", "3", "4", "5", "6", "7", "8", "9", ":", ";", "<", "=", ">", "?", "@", "A", "B", "C", "D", "E", "F", "G", "H", "I", "J", "K", "L", "M", "N", "O", "P", "Q", "R", "S", "T", "U", "V", "W", "X", "Y", "Z", "[", "\\", "]", "^", "_">>

\* the ASCII characters after the lower-case letters, in code order
AfterLetters == <<"{", "|", "}", "~">>

ord(c) ==
  IF c \in Lower THEN 96 + (CHOOSE k \in 1..26 : LowerSeq[k] = c)
  ELSE IF c \in Range(AfterLetters) THEN 122 + (CHOOSE k \in 1..4 : AfterLetters[k] = c)
  ELSE 31 + (CHOOSE k \in 1..Len(Printable) : Printable[k] = c)

\* the characters of the names of the model
spelled(name) ==
  CASE name = "x.ts" -> <<"x", ".", "t", "s">>
    [] name = "y.ts" -> <<"y", ".", "t", "s">>
    [] name = "z.js" -> <<"z", ".", "j", "s">>
    [] name = "w.ts" -> <<"w", ".", "t", "s">>
    [] name = "v.js" -> <<"v", ".", "j", "s">>
    [] name = "u.ts" -> <<"u", ".", "t", "s">>
    [] name = "t.js" -> <<"t", ".", "j", "s">>
    [] name = "s.js" -> <<"s", ".", "j", "s">>
    [] name = "r.md" -> <<"r", ".", "m", "d">>
    [] name = "package.json" -> <<"p", "a", "c", "k", "a", "g", "e", ".", "j", "s", "o", "n">>
    [] name = "tsconfig.json" -> <<"t", "s", "c", "o", "n", "f", "i", "g", ".", "j", "s", "o", "n">>
    [] name = "test-server.ts" -> <<"t", "e", "s", "t", "-", "s", "e", "r", "v", "e", "r", ".", "t", "s">>
    [] name = "yarn.lock" -> <<"y", "a", "r", "n", ".", "l", "o", "c", "k">>
    [] name = "AUDIT_REPORT.txt" -> <<"A", "U", "D", "I", "T", "_", "R", "E", "P", "O", "R", "T", ".", "t", "x", "t">>
    [] name = "logs" -> <<"l", "o", "g", "s">>
    [] name = "src" -> <<"s", "r", "c">>
    [] name = "node_modules" -> <<"n", "o", "d", "e", "_", "m", "o", "d", "u", "l", "e", "s">>
    [] OTHER -> << >>

\* str(path): the names of the path with "/" between them
RECURSIVE path_str(_)
path_str(p) ==
  IF p = << >> THEN << >>
  ELSE IF Len(p) = 1 THEN spelled(p[1])
  ELSE spelled(p[1]) \o << "/" >> \o path_str(Tail(p))

\* a < b for two str: at the first place where they differ a has the
\* character of lower code, or a has ended
str_less(a, b) ==
  \E k \in 1..Len(b) :
    /\ k <= Len(a) + 1
    /\ SubSeq(a, 1, k - 1) = SubSeq(b, 1, k - 1)
    /\ (k = Len(a) + 1 \/ ord(a[k]) < ord(b[k]))

\* sorted(list(set(paths)))
sorted_paths(S) ==
  [k \in 1..Cardinality(S) |->
     CHOOSE p \in S : Cardinality({q \in S : str_less(path_str(q), path_str(p))}) = k - 1]

\* the number of matches of one kind over the files, each match counted
count_per_match(name, tree, fl) == SumSeq(matches_in(name, tree, fl))

\* PerformanceScanner.scan, were every match appended and none set apart
performance_scan_per_match(tree, fl) ==
  LET found == [k \in 1..Len(PERFORMANCE_PATTERNS) |->
                  files_with(PERFORMANCE_PATTERNS[k], tree, readable_sources(tree, fl))]
      each == [k \in 1..Len(PERFORMANCE_PATTERNS) |->
                 count_per_match(PERFORMANCE_PATTERNS[k], tree, readable_sources(tree, fl))]
  IN [counts |-> each,
      paths |-> [k \in 1..Len(found) |-> sorted_paths(found[k])],
      total_issues |-> SumSeq([k \in 1..(Len(found) - 1) |-> each[k]])]

\* PerformanceScanner.scan: for each kind the sorted list of its paths and
\* their number, and the total, which leaves out the last kind
performance_scan(tree, fl) ==
  LET found == [k \in 1..Len(PERFORMANCE_PATTERNS) |->
                  files_with(PERFORMANCE_PATTERNS[k], tree, readable_sources(tree, fl))]
  IN [counts |-> [k \in 1..Len(found) |-> Cardinality(found[k])],
      paths |-> [k \in 1..Len(found) |-> sorted_paths(found[k])],
      total_issues |-> SumSeq([k \in 1..(Len(found) - 1) |-> Cardinality(found[k])])]

\* run, step 6
RunPerformance ==
  /\ pc = "performance"
  /\ performance' = performance_scan(fs, files)
  /\ pc' = "documentation"
  /\ UNCHANGED << countVars, root, toolchain, fs, runNo, scanVars, security_issues, quality, complexity,
                  errors, documentation, lateVars >>

\* round(num / den * 1000) to the nearest integer, halves to the even one:
\* round(x, 1) of the percentage, in tenths of a percent
round_tenths(num, den) ==
  LET q == (1000 * num) \div den
      r == (1000 * num) % den
  IN IF 2 * r < den THEN q
     ELSE IF 2 * r > den THEN q + 1
     ELSE IF q % 2 = 0 THEN q ELSE q + 1

\* the scan without "if total_functions > 0": the division raises
documentation_scan_unguarded(tree, fl) ==
  LET total_functions == SumSeq(matches_in("function", tree, readable_sources(tree, fl)))
      documented_functions == SumSeq(matches_in("jsdoc", tree, readable_sources(tree, fl)))
  IN IF total_functions = 0 THEN Raised("ZeroDivisionError")
     ELSE [total_functions |-> total_functions,
           documented_functions |-> documented_functions,
           coverage_tenths |-> round_tenths(documented_functions, total_functions)]

\* DocumentationScanner.scan; coverage_percent is held in tenths of a percent
documentation_scan(tree, fl) ==
  LET total_functions == SumSeq(matches_in("function", tree, readable_sources(tree, fl)))
      documented_functions == SumSeq(matches_in("jsdoc", tree, readable_sources(tree, fl)))
  IN [total_functions |-> total_functions,
      documented_functions |-> documented_functions,
      coverage_tenths |-> IF total_functions > 0
                          THEN round_tenths(documented_functions, total_functions)
                          ELSE 0]

\* run, step 7
RunDocumentation ==
  /\ pc = "documentation"
  /\ \E result \in {documentation_scan(fs, files)} : documentation' = result
  /\ pc' = "duplication"
  /\ UNCHANGED << countVars, root, toolchain, fs, runNo, scanVars, security_issues, quality, complexity,
                  errors, performance, lateVars >>

(***************************************************************************)
(* CodeDuplicationScanner                                                  *)
(***************************************************************************)
\* a hash that takes every line to the same number
hash_constant(s) == 0

\* hash(str): an integer that depends on every character and its position
RECURSIVE hash(_)
hash(s) ==
  IF s = << >> THEN 0
  ELSE (31 * hash(SubSeq(s, 1, Len(s) - 1)) + ord(s[Len(s)])) % 1000003

\* the line is one the loop body puts in line_hashes
dup_eligible(line) ==
  LET normalized == strip(line)
  IN /\ normalized # << >>
     /\ ~startswith(normalized, {<<"/", "/">>, <<"/", "*">>, <<"*">>, <<"{">>, <<"}">>})
     /\ ~(Len(normalized) < 30)

\* the entries one file adds to line_hashes, each with its key
dup_file_entries(tree, relpath) ==
  LET lines == readlines(tree[relpath].content)
      kept == SelectSeq([i \in 1..Len(lines) |-> [line |-> lines[i], at |-> i]],
                        LAMBDA e : dup_eligible(e.line))
  IN [k \in 1..Len(kept) |->
        [key |-> hash(strip(kept[k].line)), file |-> relpath, lineno |-> kept[k].at]]

\* the entries of line_hashes after the loop over the files
RECURSIVE dup_entries(_, _)
dup_entries(tree, fl) ==
  IF fl = << >> THEN << >>
  ELSE dup_file_entries(tree, Head(fl).path) \o dup_entries(tree, Tail(fl))

\* a count that depends on the order of the entries: the entries whose key
\* is the key of the entry before them
count_duplicates_adjacent(entries) ==
  Cardinality({k \in 2..Len(entries) : entries[k].key = entries[k - 1].key})

\* the second loop: len(occurrences) - 1 for every key with several occurrences
count_duplicates(entries) ==
  LET keys == Ascending({entries[k].key : k \in 1..Len(entries)})
      occurrences(h) == Cardinality({k \in 1..Len(entries) : entries[k].key = h})
  IN SumSeq([k \in 1..Len(keys) |->
               IF occurrences(keys[k]) > 1 THEN occurrences(keys[k]) - 1 ELSE 0])

\* CodeDuplicationScanner.scan; duplication_percent is kept in tenths
duplication_scan(tree, fl) ==
  LET duplicates == count_duplicates(dup_entries(tree, readable_sources(tree, fl)))
      eligible == SelectSeq(fl, LAMBDA f : f.extension \in SourceExts)
      total == SumSeq([k \in 1..Len(eligible) |-> eligible[k].code_lines])
  IN IF fl = << >> THEN [duplicate_lines |-> duplicates, duplication_percent |-> 0]
     ELSE IF total = 0 THEN Raised("ZeroDivisionError")
     ELSE [duplicate_lines |-> duplicates, duplication_percent |-> round_tenths(duplicates, total)]

\* run, step 8: an exception of scan is caught nowhere and ends run
RunDuplication ==
  /\ pc = "duplication"
  /\ duplication' = duplication_scan(fs, files)
  /\ pc' = IF duplication_scan(fs, files) = Raised("ZeroDivisionError") THEN "raised"
           ELSE "dependencies"
  /\ UNCHANGED << countVars, root, toolchain, fs, runNo, scanVars, security_issues, quality, complexity, patternVars,
                  deps, toolVars, largest, report, history >>

(***************************************************************************)
(* json: the values json.loads returns, tagged with their Python type; a   *)
(* dict is the sequence of its items in their order                        *)
(***************************************************************************)
JDict(items) == [t |-> "dict", v |-> items]

JList(elements) == [t |-> "list", v |-> elements]

JStr(text) == [t |-> "str", v |-> text]

JInt(n) == [t |-> "int", v |-> n]

JBool(b) == [t |-> "bool", v |-> b]

JNone == [t |-> "NoneType", v |-> 0]

\* json.loads raising json.JSONDecodeError, whose str() is message
JSONDecodeError(message) == [t |-> "JSONDecodeError", v |-> message]

\* json.loads on the texts the tools and the configuration files of the
\* model produce
json_loads(text) ==
  CASE text = <<>> ->
         JSONDecodeError("Expecting value: line 1 column 1 (char 0)")
    [] text = <<" ", "\n">> ->
         JSONDecodeError("Expecting value: line 2 column 1 (char 2)")
    [] text = <<"n", "p", "m", " ", "E", "R", "R">> ->
         JSONDecodeError("Expecting value: line 1 column 1 (char 0)")
    [] text = <<"[", "]">> ->
         JList(<<>>)
    [] text = <<"{", "}">> ->
         JDict(<<>>)
    [] text = <<"{", "}", " ">> ->
         JDict(<<>>)
    [] text = <<"n", "u", "l", "l">> ->
         JNone
    [] text = <<"[", "1", "]">> ->
         JList(<<JInt(1)>>)
    [] text = <<"{", "\"", "v", "u", "l", "n", "e", "r", "a", "b", "i", "l", "i", "t", "i", "e", "s", "\"", ":", "[", "]", "}">> ->
         JDict(<<<<"vulnerabilities", JList(<<>>)>>>>)
    [] text = <<"{", "\"", "v", "u", "l", "n", "e", "r", "a", "b", "i", "l", "i", "t", "i", "e", "s", "\"", ":", "{", "\"", "a", "\"", ":", "1", "}", "}">> ->
         JDict(<<<<"vulnerabilities", JDict(<<<<"a", JInt(1)>>>>)>>>>)
    [] text = <<"{", "\"", "v", "u", "l", "n", "e", "r", "a", "b", "i", "l", "i", "t", "i", "e", "s", "\"", ":", "{", "\"", "a", "\"", ":", "{", "\"", "s", "e", "v", "e", "r", "i", "t", "y", "\"", ":", "\"", "h", "i", "g", "h", "\"", "}", "}", "}">> ->
         JDict(<<<<"vulnerabilities", JDict(<<<<"a", JDict(<<<<"severity", JStr("high")>>>>)>>>>)>>>>)
    [] text = <<"{", "\"", "v", "u", "l", "n", "e", "r", "a", "b", "i", "l", "i", "t", "i", "e", "s", "\"", ":", "{", "\"", "a", "\"", ":", "{", "\"", "s", "e", "v", "e", "r", "i", "t", "y", "\"", ":", "[", "]", "}", "}", "}">> ->
         JDict(<<<<"vulnerabilities", JDict(<<<<"a", JDict(<<<<"severity", JList(<<>>)>>>>)>>>>)>>>>)
    [] text = <<"{", "\"", "d", "e", "p", "e", "n", "d", "e", "n", "c", "i", "e", "s", "\"", ":", "[", "\"", "a", "\"", "]", ",", "\"", "d", "e", "v", "D", "e", "p", "e", "n", "d", "e", "n", "c", "i", "e", "s", "\"", ":", "[", "]", ",", "\"", "m", "i", "s", "s", "i", "n", "g", "\"", ":", "{", "}", "}">> ->
         JDict(<<<<"dependencies", JList(<<JStr("a")>>)>>, <<"devDependencies", JList(<<>>)>>, <<"missing", JDict(<<>>)>>>>)
    [] text = <<"{", "\"", "m", "i", "s", "s", "i", "n", "g", "\"", ":", "1", "}">> ->
         JDict(<<<<"missing", JInt(1)>>>>)
    [] text = <<"{", "\"", "a", "\"", ":", "{", "\"", "c", "u", "r", "r", "e", "n", "t", "\"", ":", "\"", "1", "\"", ",", "\"", "l", "a", "t", "e", "s", "t", "\"", ":", "\"", "2", "\"", "}", "}">> ->
         JDict(<<<<"a", JDict(<<<<"current", JStr("1")>>, <<"latest", JStr("2")>>>>)>>>>)
    [] text = <<"[", "{", "\"", "m", "e", "s", "s", "a", "g", "e", "s", "\"", ":", "[", "{", "\"", "s", "e", "v", "e", "r", "i", "t", "y", "\"", ":", "2", ",", "\"", "r", "u", "l", "e", "I", "d", "\"", ":", "\"", "r", "\"", "}", "]", "}", "]">> ->
         JList(<<JDict(<<<<"messages", JList(<<JDict(<<<<"severity", JInt(2)>>, <<"ruleId", JStr("r")>>>>)>>)>>>>)>>)
    [] text = <<"[", "{", "\"", "m", "e", "s", "s", "a", "g", "e", "s", "\"", ":", "[", "{", "\"", "s", "e", "v", "e", "r", "i", "t", "y", "\"", ":", "1", ",", "\"", "r", "u", "l", "e", "I", "d", "\"", ":", "n", "u", "l", "l", "}", "]", "}", "]">> ->
         JList(<<JDict(<<<<"messages", JList(<<JDict(<<<<"severity", JInt(1)>>, <<"ruleId", JNone>>>>)>>)>>>>)>>)
    [] text = <<"[", "{", "\"", "m", "e", "s", "s", "a", "g", "e", "s", "\"", ":", "1", "}", "]">> ->
         JList(<<JDict(<<<<"messages", JInt(1)>>>>)>>)
    [] text = <<"{", "\"", "c", "o", "m", "p", "i", "l", "e", "r", "O", "p", "t", "i", "o", "n", "s", "\"", ":", "{", "\"", "s", "t", "r", "i", "c", "t", "\"", ":", "t", "r", "u", "e", "}", "}">> ->
         JDict(<<<<"compilerOptions", JDict(<<<<"strict", JBool(TRUE)>>>>)>>>>)
    [] text = <<"{", "\"", "c", "o", "m", "p", "i", "l", "e", "r", "O", "p", "t", "i", "o", "n", "s", "\"", ":", "{", "\"", "s", "t", "r", "i", "c", "t", "\"", ":", "t", "r", "u", "e", ",", "\"", "n", "o", "I", "m", "p", "l", "i", "c", "i", "t", "A", "n", "y", "\"", ":", "f", "a", "l", "s", "e", "}", "}">> ->
         JDict(<<<<"compilerOptions", JDict(<<<<"strict", JBool(TRUE)>>, <<"noImplicitAny", JBool(FALSE)>>>>)>>>>)
    [] text = <<"{", "\"", "c", "o", "m", "p", "i", "l", "e", "r", "O", "p", "t", "i", "o", "n", "s", "\"", ":", "1", "}">> ->
         JDict(<<<<"compilerOptions", JInt(1)>>>>)

\* an exception raised while a scan runs, with its str()
Exc(message) == [t |-> "exception", v |-> message]

\* AttributeError of a value that lacks a method
no_attribute(j, attr) == Exc("'" \o j.t \o "' object has no attribute '" \o attr \o "'")

\* dict.get(key, default) on a dict of json; the last item of a key counts
dict_get(j, key, default) ==
  LET at == {k \in 1..Len(j.v) : j.v[k][1] = key}
  IN IF at = {} THEN default ELSE j.v[SetMax(at)][2]

\* a == b for two json values
same(a, b) == a.t = b.t /\ a.v = b.v

\* bool(value): the truth value of a json value
truthy(j) ==
  CASE j.t \in {"dict", "list"} -> j.v # << >>
    [] j.t = "str" -> j.v # ""
    [] j.t = "int" -> j.v # 0
    [] j.t = "bool" -> j.v
    [] OTHER -> FALSE

(***************************************************************************)
(* DependencyAnalyzer and the external tools                               *)
(***************************************************************************)
EmptyDict == [k \in {} |-> 0]

\* what analyze can return when package.json exists: {} after an exception,
\* else the counts of what json.load found
DepsOutcomes == {EmptyDict, [prod |-> 1, dev |-> 1, total |-> 2, top_prod |-> << "express" >>]}

\* dict.get(key, default)
get(dict, key, default) == IF key \in DOMAIN dict THEN dict[key] ELSE default

\* where run goes once a scan has ended: to its next step when the scan
\* returned a dict, out of run when the scan raised
after_scan(result, next) == IF "raised" \in DOMAIN result THEN "raised" ELSE next

\* run, step 9
RunDependencies ==
  /\ pc = "dependencies"
  /\ \E result \in (IF << "package.json" >> \in DOMAIN fs THEN DepsOutcomes ELSE {EmptyDict}) :
       deps' = result /\ pc' = after_scan(result, "eslint")
  /\ UNCHANGED << countVars, root, toolchain, fs, runNo, scanVars, security_issues, quality, complexity, patternVars,
                  duplication, toolVars, largest, report, history >>

\* run, steps 10 to 14: every scan runs its tool inside try/except Exception
\* and returns a dict

\* no exception
NoExc == [t |-> "none", v |-> ""]

\* the value a block of code returns when it raises nothing
Returned(value) == [t |-> "return", v |-> value]

\* the first exception among the outcomes of the passes of a loop, if any
first_exception(passes) ==
  LET raised == {k \in 1..Len(passes) : passes[k].t = "exception"}
  IN IF raised = {} THEN NoExc ELSE passes[SetMin(raised)]

\* dict.values() of a dict of json
dict_values(j) == [k \in 1..Len(j.v) |-> j.v[k][2]]

\* the dict every scan returns for a tool it could not use
Unavailable(error) == [available |-> FALSE, error |-> error]

\* a scan whose last except clause is missing: the exception leaves the scan
uncaught(outcome) == IF outcome.t = "exception" THEN Raised(outcome.v) ELSE outcome.v

\* except Exception as e: return {'available': False, 'error': str(e)}
caught(outcome) == IF outcome.t = "exception" THEN Unavailable(outcome.v) ELSE outcome.v

\* subprocess.run raised: the except clause of the scans that matches.
\* timeout and not_found are the texts of the scan's first two clauses.
subprocess_raised(outcome, timeout, not_found) ==
  CASE outcome.raises = "TimeoutExpired" -> Unavailable(timeout)
    [] outcome.raises = "FileNotFoundError" -> Unavailable(not_found)
    [] OTHER -> Unavailable(outcome.message)

\* not result.stdout or result.stdout.strip() == ''
no_output(outcome) == strip(outcome.stdout) = << >>

(***************************************************************************)
(* NpmAuditScanner                                                         *)
(***************************************************************************)
severity_of(vuln_data) == dict_get(vuln_data, "severity", JStr("unknown"))

\* one pass of the loop over vulnerabilities.values()
vuln_pass(vuln_data) ==
  IF vuln_data.t # "dict" THEN no_attribute(vuln_data, "get")
  ELSE IF severity_of(vuln_data).t \in {"dict", "list"}
       THEN Exc("unhashable type: '" \o severity_of(vuln_data).t \o "'")
  ELSE NoExc

\* by_severity[name] after the loop
count_severity(values, name) ==
  Cardinality({k \in 1..Len(values) : severity_of(values[k]).t = "str" /\ severity_of(values[k]).v = name})

npm_audit_counts(values) ==
  [available |-> TRUE,
   total |-> count_severity(values, "critical") + count_severity(values, "high")
               + count_severity(values, "moderate") + count_severity(values, "low")
               + count_severity(values, "info"),
   critical |-> count_severity(values, "critical"),
   high |-> count_severity(values, "high"),
   moderate |-> count_severity(values, "moderate"),
   low |-> count_severity(values, "low"),
   info |-> count_severity(values, "info")]

\* the loop over vulnerabilities.values() and the return statement
npm_audit_loop(values) ==
  IF first_exception([k \in 1..Len(values) |-> vuln_pass(values[k])]).t = "exception"
  THEN first_exception([k \in 1..Len(values) |-> vuln_pass(values[k])])
  ELSE Returned(npm_audit_counts(values))

npm_audit_vulnerabilities(vulnerabilities) ==
  IF vulnerabilities.t # "dict" THEN no_attribute(vulnerabilities, "values")
  ELSE npm_audit_loop(dict_values(vulnerabilities))

\* the scan once json.loads has returned or raised
npm_audit_loaded(data) ==
  CASE data.t = "JSONDecodeError" -> Returned(Unavailable("Invalid npm audit JSON"))
    [] data.t # "dict" -> no_attribute(data, "get")
    [] OTHER -> npm_audit_vulnerabilities(dict_get(data, "vulnerabilities", JDict(<< >>)))

\* NpmAuditScanner.scan, given what subprocess.run does
npm_audit_scan(outcome) ==
  IF outcome.raises # "" THEN subprocess_raised(outcome, "npm audit timeout", "npm not found")
  ELSE IF no_output(outcome) THEN Unavailable("No npm audit output")
  ELSE caught(npm_audit_loaded(json_loads(outcome.stdout)))

\* run, step 11
RunNpmAudit ==
  /\ pc = "npm_audit"
  /\ \E result \in {npm_audit_scan(toolchain.npm_audit)} :
       npm_audit' = result /\ pc' = after_scan(result, "depcheck")
  /\ UNCHANGED << countVars, root, toolchain, fs, runNo, scanVars, security_issues, quality, complexity, patternVars,
                  duplication, deps, eslint, depcheck, npm_outdated, tsconfig,
                  largest, report, history >>

(***************************************************************************)
(* DepcheckScanner                                                         *)
(***************************************************************************)
\* len(value) raising TypeError, if it does
len_raises(j) ==
  IF j.t \in {"dict", "list", "str"} THEN NoExc
  ELSE Exc("object of type '" \o j.t \o "' has no len()")

\* value[:5] raising TypeError, if it does
slice_raises(j) ==
  CASE j.t \in {"list", "str"} -> NoExc
    [] j.t = "dict" -> Exc("unhashable type: 'slice'")
    [] OTHER -> Exc("'" \o j.t \o "' object is not subscriptable")

\* the return statement of DepcheckScanner.scan, evaluated item by item
depcheck_return(unused_deps, unused_dev_deps, missing) ==
  IF first_exception(<< len_raises(unused_deps), len_raises(unused_dev_deps), len_raises(missing),
                        slice_raises(unused_deps), slice_raises(unused_dev_deps) >>).t = "exception"
  THEN first_exception(<< len_raises(unused_deps), len_raises(unused_dev_deps), len_raises(missing),
                          slice_raises(unused_deps), slice_raises(unused_dev_deps) >>)
  ELSE Returned([available |-> TRUE,
                 unused_dependencies |-> Len(unused_deps.v),
                 unused_dev_dependencies |-> Len(unused_dev_deps.v),
                 missing_dependencies |-> Len(missing.v),
                 unused_list |-> Take(unused_deps.v, 5),
                 unused_dev_list |-> Take(unused_dev_deps.v, 5)])

\* the scan once json.loads has returned or raised
depcheck_loaded(data) ==
  CASE data.t = "JSONDecodeError" -> Returned(Unavailable("Invalid depcheck JSON"))
    [] data.t # "dict" -> no_attribute(data, "get")
    [] OTHER -> depcheck_return(dict_get(data, "dependencies", JList(<< >>)),
                                dict_get(data, "devDependencies", JList(<< >>)),
                                dict_get(data, "missing", JDict(<< >>)))

\* DepcheckScanner.scan, given what subprocess.run does
depcheck_scan(outcome) ==
  IF outcome.raises # "" THEN subprocess_raised(outcome, "depcheck timeout", "npx/depcheck not found")
  ELSE IF no_output(outcome) THEN Unavailable("No depcheck output")
  ELSE caught(depcheck_loaded(json_loads(outcome.stdout)))

\* run, step 12
RunDepcheck ==
  /\ pc = "depcheck"
  /\ \E result \in {depcheck_scan(toolchain.depcheck)} :
       depcheck' = result /\ pc' = after_scan(result, "npm_outdated")
  /\ UNCHANGED << countVars, root, toolchain, fs, runNo, scanVars, security_issues, quality, complexity, patternVars,
                  duplication, deps, eslint, npm_audit, npm_outdated, tsconfig,
                  largest, report, history >>

(***************************************************************************)
(* NpmOutdatedScanner                                                      *)
(***************************************************************************)
\* one pass of the loop over data.items()
outdated_pass(pkg_info) == IF pkg_info.t # "dict" THEN no_attribute(pkg_info, "get") ELSE NoExc

\* the entry the pass appends to outdated_list
outdated_entry(item) ==
  [name |-> item[1],
   current |-> dict_get(item[2], "current", JStr("")),
   latest |-> dict_get(item[2], "latest", JStr(""))]

\* what the scan returns when the tool printed nothing it can parse
NothingOutdated == [available |-> TRUE, total |-> 0, outdated_list |-> << >>]

\* the loop over data.items() and the return statement
npm_outdated_loop(items) ==
  IF first_exception([k \in 1..Len(items) |-> outdated_pass(items[k][2])]).t = "exception"
  THEN first_exception([k \in 1..Len(items) |-> outdated_pass(items[k][2])])
  ELSE Returned([available |-> TRUE,
                 total |-> Len(items),
                 outdated_list |-> Take([k \in 1..Len(items) |-> outdated_entry(items[k])], 10)])

\* the scan once json.loads has returned or raised
npm_outdated_loaded(data) ==
  CASE data.t = "JSONDecodeError" -> Returned(NothingOutdated)
    [] data.t # "dict" -> no_attribute(data, "items")
    [] OTHER -> npm_outdated_loop(data.v)

\* NpmOutdatedScanner.scan, given what subprocess.run does
npm_outdated_scan(outcome) ==
  IF outcome.raises # "" THEN subprocess_raised(outcome, "npm outdated timeout", "npm not found")
  ELSE IF no_output(outcome) THEN NothingOutdated
  ELSE caught(npm_outdated_loaded(json_loads(outcome.stdout)))

\* run, step 13
RunNpmOutdated ==
  /\ pc = "npm_outdated"
  /\ \E result \in {npm_outdated_scan(toolchain.npm_outdated)} :
       npm_outdated' = result /\ pc' = after_scan(result, "tsconfig")
  /\ UNCHANGED << countVars, root, toolchain, fs, runNo, scanVars, security_issues, quality, complexity, patternVars,
                  duplication, deps, eslint, npm_audit, depcheck, tsconfig,
                  largest, report, history >>

(***************************************************************************)
(* ESLintScanner                                                           *)
(***************************************************************************)
\* iter(value) raising TypeError, if it does
iter_raises(j) ==
  IF j.t \in {"dict", "list"} THEN NoExc ELSE Exc("'" \o j.t \o "' object is not iterable")

\* what a for loop over a list or a dict of json yields: the elements, the keys
iterate(j) == IF j.t = "dict" THEN [k \in 1..Len(j.v) |-> JStr(j.v[k][1])] ELSE j.v

rule_of(msg) == dict_get(msg, "ruleId", JStr("unknown"))

\* one pass of the loop over messages
msg_pass(msg) ==
  IF msg.t # "dict" THEN no_attribute(msg, "get")
  ELSE IF rule_of(msg).t \in {"dict", "list"} THEN Exc("unhashable type: '" \o rule_of(msg).t \o "'")
  ELSE NoExc

\* the loop over messages
messages_pass(messages) ==
  IF iter_raises(messages).t = "exception" THEN iter_raises(messages)
  ELSE first_exception([k \in 1..Len(iterate(messages)) |-> msg_pass(iterate(messages)[k])])

\* one pass of the loop over data
file_pass(file_result) ==
  IF file_result.t # "dict" THEN no_attribute(file_result, "get")
  ELSE messages_pass(dict_get(file_result, "messages", JList(<< >>)))

messages_of(file_result) == dict_get(file_result, "messages", JList(<< >>))

\* the messages of all file results, in the order of the loops
all_messages(results) == Flatten([k \in 1..Len(results) |-> iterate(messages_of(results[k]))])

\* the keys of issues_by_rule in the order of their insertion
RECURSIVE rules_seen(_, _)
rules_seen(seen, msgs) ==
  IF msgs = << >> THEN seen
  ELSE rules_seen(IF \E k \in 1..Len(seen) : same(seen[k], rule_of(Head(msgs)))
                  THEN seen ELSE Append(seen, rule_of(Head(msgs))),
                  Tail(msgs))

\* issues_by_rule.items()
rule_items(rules, msgs) ==
  [k \in 1..Len(rules) |->
     [rule |-> rules[k], count |-> Len(SelectSeq(msgs, LAMBDA m : same(rule_of(m), rules[k])))]]

\* the totals and the return statement, given the messages of all files
eslint_totals(results, msgs) ==
  [available |-> TRUE,
   total_errors |-> Len(SelectSeq(msgs, LAMBDA m : same(dict_get(m, "severity", JNone), JInt(2)))),
   total_warnings |-> Len(SelectSeq(msgs, LAMBDA m : ~same(dict_get(m, "severity", JNone), JInt(2)))),
   files_with_issues |-> Len(SelectSeq(results, LAMBDA r : truthy(messages_of(r)))),
   total_issues |-> Len(msgs),
   top_rules |-> Take(sorted_desc(rule_items(rules_seen(<< >>, msgs), msgs), "count"), 5)]

\* the loop over data and the return statement
eslint_loop(results) ==
  IF first_exception([k \in 1..Len(results) |-> file_pass(results[k])]).t = "exception"
  THEN first_exception([k \in 1..Len(results) |-> file_pass(results[k])])
  ELSE Returned(eslint_totals(results, all_messages(results)))

\* the scan once json.loads has returned or raised
eslint_loaded(data) ==
  CASE data.t = "JSONDecodeError" -> Returned(Unavailable("Invalid JSON: " \o data.v))
    [] iter_raises(data).t = "exception" -> iter_raises(data)
    [] OTHER -> eslint_loop(iterate(data))

\* what the scan returns when ESLint printed nothing
NoESLintOutput == [available |-> TRUE, total_errors |-> 0, total_warnings |-> 0, files_with_issues |-> 0]

\* ESLintScanner.scan, given what the two calls of subprocess.run do
eslint_scan(version, outcome) ==
  IF version.raises # "" THEN subprocess_raised(version, "ESLint timeout", "npx not found")
  ELSE IF version.returncode # 0 THEN Unavailable("ESLint not installed")
  ELSE IF outcome.raises # "" THEN subprocess_raised(outcome, "ESLint timeout", "npx not found")
  ELSE IF no_output(outcome) THEN NoESLintOutput
  ELSE caught(eslint_loaded(json_loads(outcome.stdout)))

\* run, step 10
RunESLint ==
  /\ pc = "eslint"
  /\ \E result \in {eslint_scan(toolchain.eslint_version, toolchain.eslint)} :
       eslint' = result /\ pc' = after_scan(result, "npm_audit")
  /\ UNCHANGED << countVars, root, toolchain, fs, runNo, scanVars, security_issues, quality, complexity, patternVars,
                  duplication, deps, npm_audit, depcheck, npm_outdated, tsconfig,
                  largest, report, history >>

(***************************************************************************)
(* TypeScriptConfigScanner                                                 *)
(***************************************************************************)
\* content.split('\n')
split_lines(content) ==
  LET at == Ascending({k \in 1..Len(content) : content[k] = "\n"})
  IN [k \in 1..(Len(at) + 1) |->
        SubSeq(content, IF k = 1 THEN 1 ELSE at[k - 1] + 1, IF k > Len(at) THEN Len(content) ELSE at[k] - 1)]

\* line[:line.index('//')] when '//' is in the line
uncomment(line) ==
  IF PyFind(line, <<"/", "/">>, 0) >= 0 THEN PySlice(line, 0, PyFind(line, <<"/", "/">>, 0)) ELSE line

\* clean_content
clean_content(content) ==
  JoinLines([k \in 1..Len(split_lines(content)) |-> uncomment(split_lines(content)[k])])

STRICT_FLAGS ==
  << "noImplicitAny", "strictNullChecks", "strictFunctionTypes", "noImplicitThis",
     "alwaysStrict", "strictBindCallApply", "strictPropertyInitialization" >>

ADDITIONAL_FLAGS ==
  << "noImplicitReturns", "noUncheckedIndexedAccess", "noUnusedLocals",
     "noUnusedParameters", "noFallthroughCasesInSwitch" >>

\* strict_flags: each flag with its value, in the order of the dict
strict_flags(compiler_options, strict_mode) ==
  [k \in 1..Len(STRICT_FLAGS) |-> << STRICT_FLAGS[k], dict_get(compiler_options, STRICT_FLAGS[k], strict_mode) >>]

\* additional_flags; allowUnreachableCode is inverted
additional_flags(compiler_options) ==
  [k \in 1..Len(ADDITIONAL_FLAGS) |->
     << ADDITIONAL_FLAGS[k], dict_get(compiler_options, ADDITIONAL_FLAGS[k], JBool(FALSE)) >>]
    \o << << "allowUnreachableCode", JBool(~truthy(dict_get(compiler_options, "allowUnreachableCode", JBool(TRUE)))) >> >>

\* the names of the flags whose value is false
disabled(flags) ==
  LET off == SelectSeq(flags, LAMBDA f : ~truthy(f[2]))
  IN [k \in 1..Len(off) |-> off[k][1]]

\* the return statement, given the two dicts of flags
tsconfig_return(strict_mode, strict, additional) ==
  [available |-> TRUE,
   strict_mode |-> strict_mode,
   strict_flags |-> strict,
   strict_enabled |-> Len(SelectSeq(strict, LAMBDA f : truthy(f[2]))),
   strict_total |-> Len(strict),
   strict_disabled |-> disabled(strict),
   additional_flags |-> additional,
   additional_enabled |-> Len(SelectSeq(additional, LAMBDA f : truthy(f[2]))),
   additional_total |-> Len(additional),
   additional_disabled |-> disabled(additional),
   total_typescript_errors |-> 0]

tsconfig_options(compiler_options) ==
  IF compiler_options.t # "dict" THEN no_attribute(compiler_options, "get")
  ELSE Returned(tsconfig_return(dict_get(compiler_options, "strict", JBool(FALSE)),
                                strict_flags(compiler_options, dict_get(compiler_options, "strict", JBool(FALSE))),
                                additional_flags(compiler_options)))

\* the scan once json.loads has returned or raised
tsconfig_loaded(data) ==
  CASE data.t = "JSONDecodeError" -> Returned(Unavailable("Invalid tsconfig.json: " \o data.v))
    [] data.t # "dict" -> no_attribute(data, "get")
    [] OTHER -> tsconfig_options(dict_get(data, "compilerOptions", JDict(<< >>)))

\* TypeScriptConfigScanner.scan on the tree; open() of a file that cannot be
\* read raises PermissionError, whose str() names the path after this text
tsconfig_scan(tree) ==
  IF << "tsconfig.json" >> \notin DOMAIN tree THEN Unavailable("tsconfig.json not found")
  ELSE IF ~tree[<< "tsconfig.json" >>].readable THEN Unavailable("[Errno 13] Permission denied")
  ELSE CHOOSE result \in {caught(tsconfig_loaded(data)) :
                            data \in {json_loads(text) :
                                        text \in {clean_content(tree[<< "tsconfig.json" >>].content)}}} : TRUE

\* run, step 14
RunTsConfig ==
  /\ pc = "tsconfig"
  /\ \E result \in {tsconfig_scan(fs)} :
       tsconfig' = result /\ pc' = after_scan(result, "generate")
  /\ UNCHANGED << countVars, root, toolchain, fs, runNo, scanVars, security_issues, quality, complexity, patternVars,
                  duplication, deps, eslint, npm_audit, depcheck, npm_outdated,
                  largest, report, history >>

(***************************************************************************)
(* ReportGenerator                                                         *)
(***************************************************************************)
DigitSeq == <<"0", "1", "2", "3", "4", "5", "6", "7", "8", "9">>

\* str(n) for n >= 0
RECURSIVE str(_)
str(n) == IF n < 10 THEN << DigitSeq[n + 1] >> ELSE str(n \div 10) \o << DigitSeq[(n % 10) + 1] >>

\* format(n, ","): the digits in groups of three
RECURSIVE grouped(_)
grouped(n) ==
  IF n < 1000 THEN str(n)
  ELSE grouped(n \div 1000) \o <<",">> \o SubSeq(str(1000 + (n % 1000)), 2, 4)

\* the ">w" alignment: spaces in front up to width w
rjust(s, w) == [k \in 1..(IF Len(s) < w THEN w - Len(s) ELSE 0) |-> " "] \o s

rule(c) == [k \in 1..70 |-> c]

\* str(path) of a relative path; a component is kept as one symbol of the text
RECURSIVE path_text(_)
path_text(parts) ==
  IF Len(parts) = 1 THEN parts ELSE << Head(parts) >> \o <<"/">> \o path_text(Tail(parts))

\* the two header lines above the date
report_title ==
  << rule("="), <<" ", " ", "T", "R", "A", "C", "K", " ", "R", "E", "C", "O", "R", "D", " ", "E", "N", "C", "L", "A", "V", "E", " ", "-", " ", "A", "U", "D", "I", "T", " ", "R", "E", "P", "O", "R", "T">>, rule("=") >>

report_resume(fl, dependencies) ==
  << <<"[", "R", "E", "S", "U", "M", "E", "]">>, rule("-"),
     <<" ", " ", "T", "o", "t", "a", "l", " ", "l", "i", "g", "n", "e", "s", ":", " ", " ", " ", " ", " ">> \o rjust(grouped(SumSeq([k \in 1..Len(fl) |-> fl[k].lines])), 8),
     <<" ", " ", "L", "i", "g", "n", "e", "s", " ", "d", "e", " ", "c", "o", "d", "e", ":", " ", " ", " ">> \o rjust(grouped(SumSeq([k \in 1..Len(fl) |-> fl[k].code_lines])), 8),
     <<" ", " ", "F", "i", "c", "h", "i", "e", "r", "s", ":", " ", " ", " ", " ", " ", " ", " ", " ", " ">> \o rjust(grouped(Len(fl)), 8),
     <<" ", " ", "D", "e", "p", "e", "n", "d", "a", "n", "c", "e", "s", ":", " ", " ", " ", " ", " ", " ">> \o rjust(grouped(get(dependencies, "total", 0)), 8),
     << >> >>

\* largest = sorted(files, key=lambda f: f.lines, reverse=True)[:5]
largest_files(fl) == Take(sorted_desc(fl, "lines"), 5)

report_largest(top) ==
  << <<"[", "P", "L", "U", "S", " ", "G", "R", "O", "S", " ", "F", "I", "C", "H", "I", "E", "R", "S", "]">>, rule("-") >>
    \o [k \in 1..Len(top) |->
          <<" ", " ">> \o rjust(str(top[k].lines), 5) \o <<" ", "l", "i", "g", "n", "e", "s", " ", " ">> \o path_text(top[k].path)]
    \o << << >> >>

report_quality(q) ==
  << <<"[", "Q", "U", "A", "L", "I", "T", "E", " ", "D", "U", " ", "C", "O", "D", "E", "]">>, rule("-"),
     <<" ", " ", "T", "O", "D", "O", "/", "F", "I", "X", "M", "E", ":", " ", " ", " ", " ", " ", " ", " ">> \o rjust(str(q.todos), 8) \o <<" ", "f", "i", "c", "h", "i", "e", "r", "s">>,
     <<" ", " ", "@", "t", "s", "-", "i", "g", "n", "o", "r", "e", ":", " ", " ", " ", " ", " ", " ", " ">> \o rjust(str(q.ts_ignores), 8) \o <<" ", "o", "c", "c", "u", "r", "r", "e", "n", "c", "e", "s">>,
     <<" ", " ", "T", "y", "p", "e", " ", "'", "a", "n", "y", "'", ":", " ", " ", " ", " ", " ", " ", " ">> \o rjust(str(q.any_types), 8) \o <<" ", "o", "c", "c", "u", "r", "r", "e", "n", "c", "e", "s">> >>
    \o (IF q.long_files = << >> THEN << >>
        ELSE << <<"\n", " ", " ", "F", "i", "c", "h", "i", "e", "r", "s", " ", ">", "4", "0", "0", " ", "l", "i", "g", "n", "e", "s", ":", " ">> \o str(Len(q.long_files)) >>
               \o [k \in 1..Len(Take(q.long_files, 3)) |->
                     <<" ", " ", " ", " ", " ", "-", " ">> \o str(q.long_files[k].lines) \o <<" ", "l", "i", "g", "n", "e", "s", ":", " ">>
                       \o path_text(q.long_files[k].file)])
    \o << << >> >>

report_footer == << rule("="), <<"A", "U", "D", "I", "T", " ", "T", "E", "R", "M", "I", "N", "E">>, rule("=") >>

\* the list "lines" at the end of ReportGenerator.generate, for the sections
\* whose inputs the state keeps: header, summary, largest files, code quality
\* and footer.  Every section left out appends lines of its own between these.
generate_lines(fl, dependencies, q, stamp) ==
  report_title \o << <<" ", " ", "D", "a", "t", "e", ":", " ">> \o stamp, rule("="), << >> >>
    \o report_resume(fl, dependencies)
    \o report_largest(largest_files(fl))
    \o report_quality(q)
    \o report_footer

\* datetime.now().strftime('%Y-%m-%d %H:%M') at two moments
Stamps == {<<"2", "0", "2", "5", "-", "0", "1", "-", "0", "1", " ", "0", "9", ":", "0", "0">>, <<"2", "0", "2", "5", "-", "0", "1", "-", "0", "1", " ", "0", "9", ":", "0", "1">>}

\* run: report = ReportGenerator.generate(...), which returns
\* '\n'.join(lines), and print(report)
RunGenerate ==
  /\ pc = "generate"
  /\ \E stamp \in Stamps : \E lines \in {generate_lines(files, deps, quality, stamp)} :
       report' = [text |-> JoinLines(lines)]
  /\ largest' = largest_files(files)
  /\ pc' = "write"
  /\ UNCHANGED << countVars, root, toolchain, fs, runNo, scanVars, security_issues, quality, complexity, patternVars,
                  duplication, deps, toolVars, history >>

\* the counts of the run that is ending
run_counts ==
  [files |-> Len(files),
   lines |-> SumSeq([k \in 1..Len(files) |-> files[k].lines]),
   code |-> SumSeq([k \in 1..Len(files) |-> files[k].code_lines]),
   stats_by_ext |-> stats_by_ext,
   security |-> Len(security_issues),
   quality |-> quality,
   total_complex |-> complexity.total_complex,
   total_long |-> complexity.total_long,
   total_params |-> complexity.total_params,
   duplication |-> duplication]

\* run: the report is written to AUDIT_REPORT.txt under the root
RunWrite ==
  /\ pc = "write"
  /\ fs' = [p \in DOMAIN fs \cup {<< "AUDIT_REPORT.txt" >>} |->
              IF p = << "AUDIT_REPORT.txt" >> THEN File(report.text, TRUE) ELSE fs[p]]
  /\ history' = Append(history, run_counts)
  /\ pc' = "done"
  /\ UNCHANGED << countVars, root, toolchain, runNo, scanVars, security_issues, quality, complexity, patternVars,
                  duplication, deps, toolVars, largest, report >>

\* main is started again on the same root: a new ProjectAuditor, new scanners
RunAgain ==
  /\ pc = "done"
  /\ runNo < MaxRuns
  /\ runNo' = runNo + 1
  /\ pc' = "walk"
  /\ todo' = << << >> >>
  /\ files' = << >>
  /\ stats_by_ext' = NoStats
  /\ security_issues' = << >>
  /\ quality' = None
  /\ complexity' = None
  /\ errors' = None
  /\ performance' = None
  /\ documentation' = None
  /\ duplication' = None
  /\ deps' = None
  /\ eslint' = None
  /\ npm_audit' = None
  /\ depcheck' = None
  /\ npm_outdated' = None
  /\ tsconfig' = None
  /\ largest' = << >>
  /\ report' = None
  /\ UNCHANGED << countVars, root, toolchain, fs, analyzed, descended, history >>

(***************************************************************************)
(* Inputs                                                                  *)
(***************************************************************************)
\* the lines joined by newlines, with or without a newline after the last
Text(ls, trailing) == JoinLines(ls) \o (IF trailing /\ ls # << >> THEN <<"\n">> ELSE << >>)

SeqsUpTo(S, n) == UNION {[1..k -> S] : k \in 0..n}

\* the subsets of S with at most k elements
RECURSIVE SubsetsUpTo(_, _)
SubsetsUpTo(S, k) ==
  IF k = 0 THEN {{}}
  ELSE LET smaller == SubsetsUpTo(S, k - 1)
       IN smaller \cup {T \cup {x} : T \in smaller, x \in S}

\* subprocess.run raising an exception whose str() is message
Raising(exception, message) ==
  [raises |-> exception, message |-> message, returncode |-> 0, stdout |-> << >>]

\* subprocess.run returning a CompletedProcess
Completed(returncode, stdout) ==
  [raises |-> "", message |-> "", returncode |-> returncode, stdout |-> stdout]

\* the ways subprocess.run fails: the binary is missing, the tool runs out
\* of time, the binary may not be executed, an exception without a text
SubprocessFailures ==
  {Raising("FileNotFoundError", "[Errno 2] No such file or directory: 'npm'"),
   Raising("TimeoutExpired", "Command timed out"),
   Raising("PermissionError", "[Errno 13] Permission denied: 'npm'"),
   Raising("Exception", "")}

\* what a tool prints: nothing, blanks, a text that is no JSON, JSON of the
\* shape a tool prints and JSON of other shapes
Stdouts ==
  {<<>>,
   <<" ", "\n">>,
   <<"n", "p", "m", " ", "E", "R", "R">>,
   <<"[", "]">>,
   <<"{", "}">>,
   <<"{", "}", " ">>,
   <<"n", "u", "l", "l">>,
   <<"[", "1", "]">>,
   <<"{", "\"", "v", "u", "l", "n", "e", "r", "a", "b", "i", "l", "i", "t", "i", "e", "s", "\"", ":", "[", "]", "}">>,
   <<"{", "\"", "v", "u", "l", "n", "e", "r", "a", "b", "i", "l", "i", "t", "i", "e", "s", "\"", ":", "{", "\"", "a", "\"", ":", "1", "}", "}">>,
   <<"{", "\"", "v", "u", "l", "n", "e", "r", "a", "b", "i", "l", "i", "t", "i", "e", "s", "\"", ":", "{", "\"", "a", "\"", ":", "{", "\"", "s", "e", "v", "e", "r", "i", "t", "y", "\"", ":", "\"", "h", "i", "g", "h", "\"", "}", "}", "}">>,
   <<"{", "\"", "v", "u", "l", "n", "e", "r", "a", "b", "i", "l", "i", "t", "i", "e", "s", "\"", ":", "{", "\"", "a", "\"", ":", "{", "\"", "s", "e", "v", "e", "r", "i", "t", "y", "\"", ":", "[", "]", "}", "}", "}">>,
   <<"{", "\"", "d", "e", "p", "e", "n", "d", "e", "n", "c", "i", "e", "s", "\"", ":", "[", "\"", "a", "\"", "]", ",", "\"", "d", "e", "v", "D", "e", "p", "e", "n", "d", "e", "n", "c", "i", "e", "s", "\"", ":", "[", "]", ",", "\"", "m", "i", "s", "s", "i", "n", "g", "\"", ":", "{", "}", "}">>,
   <<"{", "\"", "m", "i", "s", "s", "i", "n", "g", "\"", ":", "1", "}">>,
   <<"{", "\"", "a", "\"", ":", "{", "\"", "c", "u", "r", "r", "e", "n", "t", "\"", ":", "\"", "1", "\"", ",", "\"", "l", "a", "t", "e", "s", "t", "\"", ":", "\"", "2", "\"", "}", "}">>,
   <<"[", "{", "\"", "m", "e", "s", "s", "a", "g", "e", "s", "\"", ":", "[", "{", "\"", "s", "e", "v", "e", "r", "i", "t", "y", "\"", ":", "2", ",", "\"", "r", "u", "l", "e", "I", "d", "\"", ":", "\"", "r", "\"", "}", "]", "}", "]">>,
   <<"[", "{", "\"", "m", "e", "s", "s", "a", "g", "e", "s", "\"", ":", "[", "{", "\"", "s", "e", "v", "e", "r", "i", "t", "y", "\"", ":", "1", ",", "\"", "r", "u", "l", "e", "I", "d", "\"", ":", "n", "u", "l", "l", "}", "]", "}", "]">>,
   <<"[", "{", "\"", "m", "e", "s", "s", "a", "g", "e", "s", "\"", ":", "1", "}", "]">>,
   <<"{", "\"", "c", "o", "m", "p", "i", "l", "e", "r", "O", "p", "t", "i", "o", "n", "s", "\"", ":", "{", "\"", "s", "t", "r", "i", "c", "t", "\"", ":", "t", "r", "u", "e", "}", "}">>,
   <<"{", "\"", "c", "o", "m", "p", "i", "l", "e", "r", "O", "p", "t", "i", "o", "n", "s", "\"", ":", "{", "\"", "s", "t", "r", "i", "c", "t", "\"", ":", "t", "r", "u", "e", ",", "\"", "n", "o", "I", "m", "p", "l", "i", "c", "i", "t", "A", "n", "y", "\"", ":", "f", "a", "l", "s", "e", "}", "}">>,
   <<"{", "\"", "c", "o", "m", "p", "i", "l", "e", "r", "O", "p", "t", "i", "o", "n", "s", "\"", ":", "1", "}">>}

SubprocessOutcomes ==
  SubprocessFailures \cup {Completed(0, t) : t \in Stdouts} \cup {Completed(1, << >>)}

\* what "eslint --version" does
VersionOutcomes == SubprocessFailures \cup {Completed(0, <<"v", "9">>), Completed(1, << >>)}

\* every tool behaves as outcome does, after "eslint --version" did as version
Toolchain(version, outcome) ==
  [eslint_version |-> version, eslint |-> outcome, npm_audit |-> outcome,
   depcheck |-> outcome, npm_outdated |-> outcome]

\* no tool is installed
NothingInstalled ==
  Toolchain(Raising("FileNotFoundError", "[Errno 2] No such file or directory: 'npm'"),
            Raising("FileNotFoundError", "[Errno 2] No such file or directory: 'npm'"))

\* the contents of tsconfig.json
TsconfigTexts ==
  {<<"{", "}">>,
   <<"{", "}", " ", "/", "/", " ", "c">>,
   <<"{", "\"", "c", "o", "m", "p", "i", "l", "e", "r", "O", "p", "t", "i", "o", "n", "s", "\"", ":", "{", "\"", "s", "t", "r", "i", "c", "t", "\"", ":", "t", "r", "u", "e", "}", "}">>,
   <<"{", "\"", "c", "o", "m", "p", "i", "l", "e", "r", "O", "p", "t", "i", "o", "n", "s", "\"", ":", "{", "\"", "s", "t", "r", "i", "c", "t", "\"", ":", "t", "r", "u", "e", ",", "\"", "n", "o", "I", "m", "p", "l", "i", "c", "i", "t", "A", "n", "y", "\"", ":", "f", "a", "l", "s", "e", "}", "}">>,
   <<"{", "\"", "c", "o", "m", "p", "i", "l", "e", "r", "O", "p", "t", "i", "o", "n", "s", "\"", ":", "1", "}">>,
   <<"n", "p", "m", " ", "E", "R", "R">>,
   <<"[", "]">>}

ProjectRoot == <<"srv", "proj">>

\* a root that itself lies under a directory named like an excluded one
BuildRoot == <<"srv", "build", "proj">>

\* lines without their terminator: blank ones, the three comment openers
\* (bare, indented, followed by text), code, code with a trailing comment,
\* and code that only resembles a comment
ClassifyLines ==
  {<< >>, <<" ">>, <<"\t", " ">>,
   <<"/", "/">>, <<" ", "/", "/", "x">>, <<"#">>, <<"#", "x">>, <<"/", "*">>, <<"\t", "/", "*", "x">>,
   <<"x">>, <<"x", " ", "/", "/", "c">>, <<"x", "#">>, <<"/">>, <<"*", "/">>}

ClassifyTexts == {Text(ls, t) : ls \in SeqsUpTo(ClassifyLines, MaxLines), t \in BOOLEAN}

\* CodeScanner(root) has been constructed and scan() is entering os.walk;
\* no detector has run
NotCounting ==
  /\ stats = NoLineStats
  /\ total_lines = 0
  /\ total_files = 0
  /\ counted = {}

\* nothing has been scanned
BeforeScan ==
  /\ runNo = 1
  /\ todo = << << >> >>
  /\ files = << >>
  /\ stats_by_ext = NoStats
  /\ analyzed = {}
  /\ descended = {}
  /\ security_issues = << >>
  /\ quality = None
  /\ complexity = None
  /\ errors = None
  /\ performance = None
  /\ documentation = None
  /\ duplication = None
  /\ deps = None
  /\ eslint = None
  /\ npm_audit = None
  /\ depcheck = None
  /\ npm_outdated = None
  /\ tsconfig = None
  /\ largest = << >>
  /\ report = None
  /\ history = << >>

AtWalk ==
  /\ NotCounting
  /\ pc = "walk"
  /\ BeforeScan

InitClassify ==
  /\ root = ProjectRoot
  /\ toolchain = NothingInstalled
  /\ \E c \in ClassifyTexts, rd \in BOOLEAN : fs = (<< "x.ts" >> :> File(c, rd))
  /\ AtWalk

SpecClassify == InitClassify /\ [][WalkDir]_vars

WalkDirNames == {"src", "node_modules"}

WalkFileNames == {"x.ts", "logs"}

WalkDirs == SeqsUpTo(WalkDirNames, MaxDepth)

WalkPaths == {Append(d, f) : d \in WalkDirs, f \in WalkFileNames}

WalkTexts == {<< >>, <<"x", "\n">>}

WalkTrees ==
  UNION {[P -> {File(c, TRUE) : c \in WalkTexts}] :
           P \in SubsetsUpTo(WalkPaths, MaxWalkFiles)}

InitWalk ==
  /\ root \in {ProjectRoot, BuildRoot}
  /\ toolchain = NothingInstalled
  /\ fs \in WalkTrees
  /\ AtWalk

SpecWalk == InitWalk /\ [][WalkDir]_vars

\* what a file can be for count-lines.py: no line, a line, two lines, a
\* line in a file that cannot be opened
CountFiles ==
  {File(<< >>, TRUE), File(<<"x", "\n">>, TRUE), File(<<"x", "\n", "y">>, TRUE),
   File(<<"x", "\n">>, FALSE)}

\* names of files: a source file, a lock file, a file named like an
\* excluded directory, and one without a suffix; names of directories: an ordinary and an excluded one
CountFileNames == {"x.ts", "yarn.lock", "out", "Dockerfile"}

CountDirNames == {"src", "dist"}

CountPaths ==
  {Append(d, f) : d \in SeqsUpTo(CountDirNames, MaxCountDepth), f \in CountFileNames}

CountTrees ==
  UNION {[Q -> CountFiles] : Q \in SubsetsUpTo(CountPaths, MaxCountFiles)}

\* main is entering os.walk(root_dir)
InitCount ==
  /\ root \in {ProjectRoot, BuildRoot}
  /\ toolchain = NothingInstalled
  /\ fs \in CountTrees
  /\ NotCounting
  /\ pc = "count"
  /\ BeforeScan

SpecCount == InitCount /\ [][CountDir]_vars

\* what a file of the root can be: a line of text, the same unreadable, bytes
\* that are no text around two newlines, and a byte that is no text alone
DecodeFiles ==
  {File(<<"x", "\n">>, TRUE), File(<<"x", "\n">>, FALSE),
   File(<< Undecodable, "\n", Undecodable, "x", "\n" >>, TRUE),
   File(<< Undecodable >>, TRUE)}

DecodePaths == {<< "x.ts" >>, << "y.ts" >>, << "z.js" >>}

InitDecode ==
  /\ root = ProjectRoot
  /\ toolchain = NothingInstalled
  /\ fs \in [DecodePaths -> DecodeFiles]
  /\ AtWalk

SpecDecode == InitDecode /\ [][WalkDir]_vars

\* a caller of CodeScanner calls scan() again on the instance whose scan has
\* returned: stats_by_ext is a new dict, self.files is the list of the instance
ScanAgain ==
  /\ pc = "security"
  /\ runNo < MaxRuns
  /\ runNo' = runNo + 1
  /\ pc' = "walk"
  /\ todo' = << << >> >>
  /\ stats_by_ext' = NoStats
  /\ UNCHANGED << countVars, root, toolchain, fs, files, analyzed, descended, resultVars >>

\* a caller of SecurityScanner calls scan(files) again on the instance whose
\* scan has returned: self.issues is the list of the instance
SecurityAgain ==
  /\ pc = "quality"
  /\ runNo < MaxRuns
  /\ runNo' = runNo + 1
  /\ security_issues' = security_scan(fs, files, security_issues)
  /\ UNCHANGED << countVars, root, toolchain, fs, pc, scanVars, quality, complexity, patternVars, lateVars >>

\* what a file of the root can be: a line with a finding, a line without,
\* and a file that cannot be opened
ReuseFiles == {File(<<"e", "v", "a", "l", "(", "x", ")", "\n">>, TRUE), File(<<"x", " ", "=", " ", "1", "\n">>, TRUE), File(<<"x", "\n">>, FALSE)}

InitReuse ==
  /\ root = ProjectRoot
  /\ toolchain = NothingInstalled
  /\ fs \in [DecodePaths -> ReuseFiles]
  /\ AtWalk

SpecReuse == InitReuse /\ [][WalkDir \/ ScanAgain \/ RunSecurity \/ SecurityAgain]_vars

\* lines for the security patterns: a match alone on its line, after a
\* "//" or an indented "#", two matches on one line, a quoted secret of ten
\* characters, one of forty-five, and lines without a match
SecurityLines ==
  {<<"e", "v", "a", "l", "(", "x", ")">>,
   <<"/", "/", " ", "e", "v", "a", "l", "(", "x", ")">>,
   <<" ", " ", "#", " ", "e", "v", "a", "l", " ", "(", "x", ")">>,
   <<"c", "o", "n", "s", "o", "l", "e", ".", "w", "a", "r", "n", "(", "1", ")">>,
   <<"/", "/", "c", "o", "n", "s", "o", "l", "e", ".", "l", "o", "g">>,
   <<"x", " ", "=", " ", "1">>,
   << >>,
   <<"s", "e", "c", "r", "e", "t", "=", "\"", "0", "1", "2", "3", "4", "5", "6", "7", "8", "9", "\"">>,
   <<"E", "v", "a", "l", "(", "a", ")", ";", "e", "v", "a", "l", " ", "(", "b", ")">>,
   <<"p", "a", "s", "s", "w", "o", "r", "d", " ", "=", " ", "'", "a", "b", "c", "d", "e", "f", "g", "h", "i", "j", "k", "l", "m", "n", "o", "p", "q", "r", "s", "t", "u", "v", "w", "x", "y", "z", "0", "1", "2", "3", "4", "5", "6", "7", "8", "9", "A", "B", "C", "D", "E", "F", "G", "H", "I", "'">>}

SecurityTexts == {Text(ls, t) : ls \in SeqsUpTo(SecurityLines, MaxLines), t \in BOOLEAN}

InitSecurity ==
  /\ root = ProjectRoot
  /\ toolchain = NothingInstalled
  /\ \E c \in SecurityTexts, rd \in BOOLEAN : fs = (<< "x.ts" >> :> File(c, rd))
  /\ AtWalk

SpecSecurity == InitSecurity /\ [][WalkDir \/ RunSecurity]_vars

\* whole runs: a source file, a file of another kind and package.json, each
\* absent or present; the texts are a code line and a comment line
RunTexts == {<<"x", " ", "=", " ", "1", "\n">>, <<"/", "/", " ", "c", "\n">>}

RunTrees ==
  UNION {[P -> {File(c, TRUE) : c \in RunTexts}] :
           P \in SubsetsUpTo({<< "x.ts" >>, << "r.md" >>, << "package.json" >>}, MaxRunFiles)}

\* the tools of a whole run: none installed, or all printing an empty JSON dict
RunToolchains == {NothingInstalled, Toolchain(Completed(0, <<"v", "9">>), Completed(0, <<"{", "}">>))}

InitRun ==
  /\ root = ProjectRoot
  /\ toolchain \in RunToolchains
  /\ fs \in RunTrees
  /\ AtWalk

\* the steps of run from the security scan to the last external tool
Detect ==
  \/ RunSecurity \/ RunQuality \/ RunComplexity \/ RunErrors \/ RunPerformance
  \/ RunDocumentation \/ RunDuplication \/ RunDependencies \/ RunESLint
  \/ RunNpmAudit \/ RunDepcheck \/ RunNpmOutdated \/ RunTsConfig

\* the steps of one call of run
RunStep == WalkDir \/ Detect \/ RunGenerate \/ RunWrite

NextRun == RunStep \/ RunAgain

SpecRun == InitRun /\ [][NextRun]_vars

\* one call of run, which is sequential code: a call that has a next step
\* takes it
FairOneRun == InitRun /\ [][RunStep]_vars /\ WF_vars(RunStep)

\* the names of the files of a flat tree, in the order of its listing
SourceNames == << "x.ts", "y.ts", "z.js", "w.ts", "v.js", "u.ts", "t.js", "s.js" >>

\* the flat tree whose k-th file holds the k-th text
FlatTree(texts) ==
  [p \in {<< SourceNames[k] >> : k \in 1..Len(texts)} |->
     File(texts[CHOOSE k \in 1..Len(texts) : SourceNames[k] = p[1]], TRUE)]

\* the order in which the listing of the root names the files of the model
ListingOrder == SourceNames \o << "r.md", "package.json", "tsconfig.json" >>

\* CodeScanner.scan has walked the tree fs, whose only directory is the root,
\* with the files listed in the order of ListingOrder
AfterWalk ==
  /\ NotCounting
  /\ pc = "security"
  /\ runNo = 1
  /\ todo = << >>
  /\ LET listing == SelectSeq([k \in 1..Len(ListingOrder) |-> << ListingOrder[k] >>],
                              LAMBDA p : p \in DOMAIN fs)
         r == scan_files(fs, root, listing, << >>, NoStats)
     IN files = r.files /\ stats_by_ext = r.stats
  /\ analyzed = DOMAIN fs
  /\ descended = {<< >>}
  /\ security_issues = << >>
  /\ quality = None
  /\ complexity = None
  /\ errors = None
  /\ performance = None
  /\ documentation = None
  /\ duplication = None
  /\ deps = None
  /\ eslint = None
  /\ npm_audit = None
  /\ depcheck = None
  /\ npm_outdated = None
  /\ tsconfig = None
  /\ largest = << >>
  /\ report = None
  /\ history = << >>

\* the text of a function named name with the given numbers of parameters,
\* of "&&" in its body and of newlines in its body
Fn(name, params, ands, newlines) ==
  << name, "(" >> \o [k \in 1..(2 * params - 1) |-> IF k % 2 = 1 THEN "p" ELSE ","]
    \o << ")", "{" >> \o [k \in 1..(2 * ands) |-> "&"] \o [k \in 1..newlines |-> "\n"]
    \o << "}", "\n" >>

\* six functions over the parameter threshold, the last with the most parameters
SixManyParams ==
  Fn("a", 6, 0, 0) \o Fn("b", 6, 0, 0) \o Fn("c", 6, 0, 0) \o Fn("d", 6, 0, 0)
    \o Fn("e", 6, 0, 0) \o Fn("f", 7, 0, 0)

\* texts with functions over and under each threshold, with equal metrics
\* under different names, and without any function
ComplexityTexts ==
  {SixManyParams,
   Fn("m", 7, 0, 0) \o Fn("n", 1, 10, 0) \o Fn("o", 1, 11, 51),
   Fn("q", 1, 10, 0) \o Fn("r", 7, 0, 52) \o Fn("g", 2, 11, 51),
   Fn("s", 5, 9, 50),
   <<"x", " ", "=", " ", "1", "\n">>}

\* texts of one and of two lines
ShortTexts == {<<"x", "\n">>, <<"x", "\n", "x", "\n">>}

\* three files that hold eleven functions over the parameter threshold
ManyOffenders ==
  << SixManyParams, Fn("m", 7, 0, 0) \o Fn("n", 1, 10, 0) \o Fn("o", 1, 11, 51), SixManyParams >>

\* files with functions; files of one or two lines; both
OffenderTrees ==
  {FlatTree(texts) : texts \in SeqsUpTo(ComplexityTexts, MaxSourceFiles)}
    \cup {FlatTree(texts) : texts \in SeqsUpTo(ShortTexts, MaxReportFiles)}
    \cup {FlatTree(ManyOffenders \o texts) : texts \in SeqsUpTo(ShortTexts, MaxReportFiles - 3)}

InitOffenders ==
  /\ root = ProjectRoot
  /\ toolchain = NothingInstalled
  /\ fs \in OffenderTrees
  /\ AfterWalk

SpecOffenders == InitOffenders /\ [][Detect \/ RunGenerate]_vars

\* lines for the duplicate table: 30 characters, the same line between
\* spaces, 29 characters, another long line, and long lines that begin with
\* "}", "#" and "//"
Line30 == <<"c", "o", "n", "s", "t", " ", "t", "o", "t", "a", "l", " ", "=", " ", "c", "o", "m", "p", "u", "t", "e", "(", "a", ",", " ", "b", ")", "+", "1", ";">>

Line29 == <<"c", "o", "n", "s", "t", " ", "t", "o", "t", "a", "l", " ", "=", " ", "c", "o", "m", "p", "u", "t", "e", "(", "a", ",", " ", "b", ")", "+", "1">>

DupLines ==
  {Line30,
   <<" ", " ", "c", "o", "n", "s", "t", " ", "t", "o", "t", "a", "l", " ", "=", " ", "c", "o", "m", "p", "u", "t", "e", "(", "a", ",", " ", "b", ")", "+", "1", ";", " ">>,
   Line29,
   <<"r", "e", "t", "u", "r", "n", " ", "i", "t", "e", "m", "s", ".", "f", "i", "l", "t", "e", "r", "(", "i", "s", "E", "l", "i", "g", "i", "b", "l", "e", "(", ")", ")", ";">>,
   <<"}", " ", "e", "l", "s", "e", " ", "{", " ", "r", "e", "t", "u", "r", "n", " ", "c", "o", "m", "p", "u", "t", "e", "(", "a", ",", " ", "b", ",", " ", "c", ")", ";", " ", "}">>,
   <<"#", " ", "c", "o", "n", "s", "t", " ", "t", "o", "t", "a", "l", " ", "=", " ", "c", "o", "m", "p", "u", "t", "e", "(", "a", ",", " ", "b", ")", " ", "+", " ", "1", ";">>,
   <<"/", "/", " ", "c", "o", "n", "s", "t", " ", "t", "o", "t", "a", "l", " ", "=", " ", "c", "o", "m", "p", "u", "t", "e", "(", "a", ",", " ", "b", ")", "+", "1", ";">>}

\* the texts of the second file
DupSecondTexts ==
  {Text(<< Line30, Line29 >>, TRUE), Text(<< Line30, Line30 >>, FALSE),
   Text(<< Line29 >>, TRUE), <<"x", " ", "=", " ", "1", "\n">>}

\* a source file alone, two source files, a file of another kind alone, no file
DupTrees ==
  {(<< "x.ts" >> :> File(Text(ls, TRUE), TRUE)) : ls \in SeqsUpTo(DupLines, MaxDupLines)}
    \cup {(<< "x.ts" >> :> File(Text(ls, TRUE), TRUE)) @@ (<< "y.ts" >> :> File(c, TRUE)) :
             ls \in SeqsUpTo(DupLines, MaxDupLines), c \in DupSecondTexts}
    \cup {(<< "r.md" >> :> File(<<"x", " ", "=", " ", "1", "\n">>, TRUE)), << >>}

InitDuplication ==
  /\ root = ProjectRoot
  /\ toolchain = NothingInstalled
  /\ fs \in DupTrees
  /\ AfterWalk

SpecDuplication == InitDuplication /\ [][Detect]_vars

\* another line of 30 characters or more
Line34 == <<"r", "e", "t", "u", "r", "n", " ", "i", "t", "e", "m", "s", ".", "f", "i", "l", "t", "e", "r", "(", "i", "s", "E", "l", "i", "g", "i", "b", "l", "e", "(", ")", ")", ";">>

\* texts that share lines of the duplicate table, and a text without one
MergeTexts ==
  {Text(<< Line30 >>, TRUE), Text(<< Line34, Line30 >>, TRUE),
   Text(<< Line30, Line34, Line30 >>, TRUE), <<"x", " ", "=", " ", "1", "\n">>}

InitMerge ==
  /\ root = ProjectRoot
  /\ toolchain = NothingInstalled
  /\ fs \in {FlatTree(<< a, b, c >>) : a \in MergeTexts, b \in MergeTexts, c \in MergeTexts}
  /\ AfterWalk

SpecMerge == InitMerge /\ [][Detect]_vars

\* the external tools: a source file with a code line, package.json absent
\* or present, tsconfig.json absent, unreadable or with one of its contents
ToolTrees ==
  {src @@ pkg @@ ts :
     src \in {(<< "x.ts" >> :> File(<<"x", " ", "=", " ", "1", "\n">>, TRUE))},
     pkg \in {<< >>, (<< "package.json" >> :> File(<<"{", "}">>, TRUE))},
     ts \in {<< >>} \cup {(<< "tsconfig.json" >> :> File(c, TRUE)) : c \in TsconfigTexts}
              \cup {(<< "tsconfig.json" >> :> File(<<"{", "}">>, FALSE))}}

\* a root where ESLint is installed, no tool can be run and no
\* configuration file exists; then every way "eslint --version" can end,
\* every outcome of the tools and every tree, one of the three at a time
InitTools ==
  /\ root = ProjectRoot
  /\ \E version \in VersionOutcomes, outcome \in SubprocessOutcomes, tree \in ToolTrees :
       /\ \/ version = Completed(0, <<"v", "9">>) /\ outcome = NothingInstalled.npm_audit
          \/ version = Completed(0, <<"v", "9">>) /\ DOMAIN tree = {<< "x.ts" >>}
          \/ outcome = NothingInstalled.npm_audit /\ DOMAIN tree = {<< "x.ts" >>}
       /\ toolchain = Toolchain(version, outcome)
       /\ fs = tree
  /\ AfterWalk

\* the steps of run after the walk
ToolStep == Detect \/ RunGenerate \/ RunWrite

\* run is sequential code: a call that has a next step takes it
FairTools == InitTools /\ [][ToolStep]_vars /\ WF_vars(ToolStep)

\* texts for the detectors: the same long line twice, the line once, and a
\* text in which every detector finds something
FindingsText ==
  Text(<< <<"/", "/", " ", "T", "O", "D", "O">>,
          <<"x", ":", " ", "a", "n", "y", " ", "=", " ", "e", "v", "a", "l", "(", "y", ")">>,
          <<"t", "r", "y", " ", "{", " ", "}", " ", "c", "a", "t", "c", "h", " ", "(", "e", ")", " ", "{", " ", "}">>,
          <<"f", "o", "r", " ", "(", ";", ";", ")", " ", "{", " ", "a", "w", "a", "i", "t", " ", "x", " ", "}">>,
          <<"/", "*", "*", " ", "d", " ", "*", "/">>,
          <<"g", "(", "a", ",", " ", "b", ",", " ", "c", ",", " ", "d", ",", " ", "e", ",", " ", "f", ")", " ", "{", " ", "}">> >>, TRUE)

IsolationTexts == {Text(<< Line30, Line30 >>, TRUE), Text(<< Line30 >>, TRUE), FindingsText}

IsolationTrees == {FlatTree(<< a, b >>) : a \in IsolationTexts, b \in IsolationTexts}

InitIsolation ==
  /\ root = ProjectRoot
  /\ toolchain = NothingInstalled
  /\ fs \in IsolationTrees
  /\ AfterWalk

\* the environment, between CodeScanner.scan and the detectors: a file of
\* the list can no longer be opened
LoseFile ==
  /\ pc = "security"
  /\ \E p \in {q \in DOMAIN fs : fs[q].readable} :
       fs' = [fs EXCEPT ![p] = File(fs[p].content, FALSE)]
  /\ UNCHANGED << countVars, root, toolchain, pc, runNo, scanVars, resultVars >>

SpecIsolation == InitIsolation /\ [][LoseFile \/ Detect \/ RunGenerate]_vars

\* the lines of FindingsText, each after a comment marker
CommentedText ==
  Text(<< <<"/", "/", " ", "@", "t", "s", "-", "i", "g", "n", "o", "r", "e">>,
          <<"/", "/", " ", "x", ":", " ", "a", "n", "y", " ", "=", " ", "1">>,
          <<" ", " ", "/", "/", " ", "t", "r", "y", " ", "{", " ", "}", " ", "c", "a", "t", "c", "h", " ", "(", "e", ")", " ", "{", " ", "}">>,
          <<"#", " ", "f", "o", "r", " ", "(", ";", ";", ")", " ", "{", " ", "a", "w", "a", "i", "t", " ", "x", " ", "}">>,
          <<"/", "/", " ", "i", "t", "e", "m", "s", ".", "f", "o", "r", "E", "a", "c", "h", "(", "a", "s", "y", "n", "c", " ", "(", "x", ")", " ", "=", ">", " ", "1", ")">> >>, TRUE)

\* a match of each kind on a code line
UncommentedText ==
  Text(<< <<"x", ":", " ", "a", "n", "y", " ", "=", " ", "1">>,
          <<"t", "r", "y", " ", "{", " ", "}", " ", "c", "a", "t", "c", "h", " ", "(", "e", ")", " ", "{", " ", "}">>,
          <<"f", "o", "r", " ", "(", ";", ";", ")", " ", "{", " ", "a", "w", "a", "i", "t", " ", "x", " ", "}">> >>, TRUE)

CommentTexts == {CommentedText, UncommentedText, <<"x", " ", "=", " ", "1", "\n">>}

InitComments ==
  /\ root = ProjectRoot
  /\ toolchain = NothingInstalled
  /\ fs \in {FlatTree(<< a, b >>) : a \in CommentTexts, b \in CommentTexts}
  /\ AfterWalk

SpecComments == InitComments /\ [][Detect \/ RunGenerate]_vars

\* texts with two loops that await, with a loop that awaits and a query,
\* and with neither
PresenceTexts ==
  {<<"f", "o", "r", " ", "(", ";", ";", ")", " ", "{", " ", "a", "w", "a", "i", "t", " ", "x", " ", "}", "\n", "f", "o", "r", " ", "(", ";", ";", ")", " ", "{", " ", "a", "w", "a", "i", "t", " ", "y", " ", "}", "\n">>,
   <<"f", "o", "r", " ", "(", ";", ";", ")", " ", "{", " ", "a", "w", "a", "i", "t", " ", "x", " ", "}", "\n", "p", "r", "i", "s", "m", "a", ".", "u", "s", "e", "r", ".", "f", "i", "n", "d", "M", "a", "n", "y", "(", ")", "\n">>,
   <<"x", " ", "=", " ", "1", "\n">>}

\* four files: the listing names w.ts last, sorted() puts it first
InitPresence ==
  /\ root = ProjectRoot
  /\ toolchain = NothingInstalled
  /\ fs \in {FlatTree(texts) : texts \in [1..4 -> PresenceTexts]}
  /\ AfterWalk

SpecPresence == InitPresence /\ [][Detect \/ RunGenerate]_vars

\* texts with and without doc-comment blocks and function declarations
DocTexts ==
  {<<"x", " ", "=", " ", "1", "\n">>,
   <<"/", "*", "*", " ", "d", " ", "*", "/", "\n", "x", " ", "=", " ", "1", "\n">>,
   <<"/", "*", "*", " ", "d", " ", "*", "/", "\n", "f", "u", "n", "c", "t", "i", "o", "n", " ", "f", "\n">>,
   <<"f", "u", "n", "c", "t", "i", "o", "n", " ", "f", "\n", "f", "u", "n", "c", "t", "i", "o", "n", " ", "g", "\n", "f", "u", "n", "c", "t", "i", "o", "n", " ", "h", "\n">>,
   <<"/", "*", "*", " ", "a", " ", "*", "/", "\n", "/", "*", "*", " ", "b", " ", "*", "/", "\n", "f", "u", "n", "c", "t", "i", "o", "n", " ", "f", "\n">>}

InitDocs ==
  /\ root = ProjectRoot
  /\ toolchain = NothingInstalled
  /\ fs \in {FlatTree(<< a, b >>) : a \in DocTexts, b \in DocTexts}
  /\ AfterWalk

SpecDocs == InitDocs /\ [][Detect \/ RunGenerate]_vars

\* texts of one function: three "if" each followed by a space, three "if"
\* each followed by "(", and a name that ends in "if"
KeywordTexts ==
  {<<"f", "(", ")", " ", "{", " ", "i", "f", " ", "(", "a", ")", " ", "b", ";", " ", "i", "f", " ", "(", "c", ")", " ", "d", ";", " ", "i", "f", " ", "(", "e", ")", " ", "g", ";", " ", "}", "\n">>,
   <<"f", "(", ")", " ", "{", " ", "i", "f", "(", "a", ")", " ", "b", ";", " ", "i", "f", "(", "c", ")", " ", "d", ";", " ", "i", "f", "(", "e", ")", " ", "g", ";", " ", "}", "\n">>,
   <<"g", "(", ")", " ", "{", " ", "n", "o", "t", "i", "f", " ", "=", " ", "1", ";", " ", "}", "\n">>}

\* texts in which a "}" stands between the start of a match and the first
\* "{" after it, and a text with nested braces
BraceTexts ==
  {<<"f", "u", "n", "c", "t", "i", "o", "n", " ", "h", "(", "a", " ", "=", " ", "'", "}", "'", ")", " ", "{", " ", "r", "e", "t", "u", "r", "n", " ", "1", " ", "}", "\n">>,
   <<"{", " ", "h", "(", "x", ")", " ", "=", ">", " ", "y", " ", "}", "\n", "z", " ", "=", " ", "{", " ", "a", " ", "}", "\n">>,
   <<"f", "u", "n", "c", "t", "i", "o", "n", " ", "n", "(", ")", " ", "{", " ", "a", " ", "=", " ", "{", " ", "b", ":", " ", "{", " ", "}", " ", "}", " ", "}", "\n", "c", " ", "=", " ", "{", " ", "}", "\n">>}

\* six parameters in a named declaration, in a method and in an arrow
\* function; one parameter and a return type with five commas; five
\* parameters; a function over the thresholds of complexity and of lines
ParamTexts ==
  {<<"f", "u", "n", "c", "t", "i", "o", "n", " ", "k", "(", "a", ",", " ", "b", ",", " ", "c", ",", " ", "d", ",", " ", "e", ",", " ", "f", ")", " ", "{", " ", "}", "\n">>,
   <<"k", "(", "a", ",", " ", "b", ",", " ", "c", ",", " ", "d", ",", " ", "e", ",", " ", "f", ")", " ", "{", " ", "}", "\n">>,
   <<"m", " ", "=", " ", "k", "(", "a", ",", " ", "b", ",", " ", "c", ",", " ", "d", ",", " ", "e", ",", " ", "f", ")", " ", "=", ">", " ", "1", "\n">>,
   <<"n", "(", "a", ")", ":", " ", "P", "<", "a", ",", " ", "b", ",", " ", "c", ",", " ", "d", ",", " ", "e", ",", " ", "f", ">", " ", "{", " ", "}", "\n">>,
   <<"p", "(", "a", ",", " ", "b", ",", " ", "c", ",", " ", "d", ",", " ", "e", ")", " ", "{", " ", "}", "\n">>,
   Fn("o", 1, 11, 51)}

FunctionTexts == KeywordTexts \cup BraceTexts \cup ParamTexts

InitFunctions ==
  /\ root = ProjectRoot
  /\ toolchain = NothingInstalled
  /\ fs \in {FlatTree(<< a, b >>) : a \in FunctionTexts, b \in FunctionTexts}
  /\ AfterWalk

SpecFunctions == InitFunctions /\ [][Detect \/ RunGenerate]_vars

\* n characters that are no brace, no space and no part of a word, in lines
\* of 25 characters
Filler(n) == [k \in 1..n |-> IF k % 26 = 0 THEN "\n" ELSE ";"]

\* texts of one function: the closing brace 5000 characters after the
\* opening one, from the start of the text and from its second line; no
\* closing brace in a short text; the closing brace at once, before 5000
\* other characters
WindowTexts ==
  {<<"f", "(", ")", " ", "{">> \o Filler(5000) \o <<"}", "\n">>,
   <<";", ";", "\n", "f", "(", ")", " ", "{">> \o Filler(5000) \o <<"}", "\n">>,
   <<"f", "(", ")", " ", "{", ";", ";", ";", ";", "\n">>,
   <<"f", "(", ")", " ", "{", " ", "}">> \o Filler(5000) \o <<"\n">>}

InitWindow ==
  /\ root = ProjectRoot
  /\ toolchain = NothingInstalled
  /\ fs \in {FlatTree(<< a, b >>) : a \in WindowTexts, b \in WindowTexts}
  /\ AfterWalk

SpecWindow == InitWindow /\ [][Detect \/ RunGenerate]_vars

(***************************************************************************)
(* Properties                                                              *)
(***************************************************************************)
FileList == {files[i] : i \in DOMAIN files}

\* C1: in every FileStats record that analyze_file returned, the code, blank
\* and comment counts add up to the line count and none of them is negative.
C1_CountsPartitionLines ==
  \A r \in FileList :
    /\ r.code_lines + r.blank_lines + r.comment_lines = r.lines
    /\ r.code_lines >= 0
    /\ r.blank_lines >= 0
    /\ r.comment_lines >= 0

\* a record of a file that holds a blank line, a comment line and a code line
C1_Witness ==
  \E r \in FileList : r.code_lines > 0 /\ r.blank_lines > 0 /\ r.comment_lines > 0

\* C2: no record of the file list has a path with a component in EXCLUDE_DIRS,
\* analyze_file is never called on a file under such a directory, and the walk
\* never yields such a directory.
C2_ExcludedDirsPruned ==
  /\ \A r \in FileList : \A i \in 1..Len(r.path) : r.path[i] \notin EXCLUDE_DIRS
  /\ \A p \in analyzed : \A i \in 1..Len(p) : p[i] \notin EXCLUDE_DIRS
  /\ \A d \in descended : \A i \in 1..Len(d) : d[i] \notin EXCLUDE_DIRS

\* the walk is over, the tree holds an eligible file below an excluded
\* directory that lies below an ordinary one, and another file was recorded
C2_Witness ==
  /\ pc = "security"
  /\ << "src", "node_modules", "x.ts" >> \in DOMAIN fs
  /\ fs[<< "src", "node_modules", "x.ts" >>].content # << >>
  /\ files # << >>

\* the line of the text that holds offset start: what lies between the
\* newline before it, or the start of the text, and the next newline, or the
\* end of the text
true_line(content, start) ==
  LET nl == PyFind(content, <<"\n">>, start)
  IN PySlice(content, PyRFind(content, <<"\n">>, start) + 1, IF nl < 0 THEN Len(content) ELSE nl)

\* the matches of a pattern that lie on a line which does not begin, once
\* trimmed, with "//" or "#"
live_matches(name, content) ==
  SelectSeq(finditer(name, content, 0),
            LAMBDA m : ~startswith(strip(true_line(content, m.start)), {<<"/", "/">>, <<"#">>}))

issues_of(name, relpath) ==
  SelectSeq(security_issues, LAMBDA i : i.type = name /\ i.file = relpath)

\* C3: once SecurityScanner.scan has returned, every match of a security
\* pattern on a non-comment line of a scanned file has produced exactly one
\* finding and every match on a comment line has produced none, wherever in
\* the file the line is.
C3_CommentAwareFindings ==
  pc = "quality" =>
    \A r \in FileList : \A n \in 1..Len(SECURITY_PATTERNS) :
      r.extension \in SourceExts /\ fs[r.path].readable =>
        Len(issues_of(SECURITY_PATTERNS[n], r.path))
          = Len(live_matches(SECURITY_PATTERNS[n], fs[r.path].content))

\* the same, for the matches that do not lie on the first line of the file
C3_CommentAwareAfterFirstLine ==
  pc = "quality" =>
    \A r \in FileList : \A n \in 1..Len(SECURITY_PATTERNS) :
      r.extension \in SourceExts /\ fs[r.path].readable
        /\ (\A m \in Range(finditer(SECURITY_PATTERNS[n], fs[r.path].content, 0)) :
              PyRFind(fs[r.path].content, <<"\n">>, m.start) >= 0) =>
        Len(issues_of(SECURITY_PATTERNS[n], r.path))
          = Len(live_matches(SECURITY_PATTERNS[n], fs[r.path].content))

\* the functions that analyze_function_complexity flags in the files that
\* ComplexityScanner.scan reads, in the order in which they are met
RECURSIVE all_flagged(_, _, _)
all_flagged(tree, fl, which) ==
  IF fl = << >> THEN << >>
  ELSE flagged(tree[Head(fl).path].content)[which] \o all_flagged(tree, Tail(fl), which)

flagged_now(which) == all_flagged(fs, readable_sources(fs, files), which)

\* C6: when ComplexityScanner.scan has returned, total_complex, total_long and
\* total_params are the numbers of functions over the respective threshold in
\* all eligible files, and the number of over-long files that
\* QualityScanner.scan reports is the number of files with more than 400 code lines.
C6_TotalsAreExact ==
  pc = "errors" =>
    /\ complexity.total_complex = Len(flagged_now("complex_functions"))
    /\ complexity.total_long = Len(flagged_now("long_functions"))
    /\ complexity.total_params = Len(flagged_now("many_params"))
    /\ Len(quality.long_files) = Len(all_long_files(files))

\* how often the entry occurs in the list
occurrences_in(list, e) == Cardinality({k \in 1..Len(list) : list[k] = e})

\* no flagged function that the list leaves out has a higher metric than an
\* entry of the list
HoldsHighest(list, all, key) ==
  \A i \in 1..Len(all) : \A j \in 1..Len(list) :
    occurrences_in(all, all[i]) > occurrences_in(list, all[i]) => all[i][key] <= list[j][key]

\* C7: when ComplexityScanner.scan has returned, each offender list holds the
\* entries with the highest metric among the flagged functions of all eligible
\* files: no flagged function left out has a strictly higher metric than one
\* that is in the list.
C7_ListsHoldHighest ==
  pc = "errors" =>
    /\ HoldsHighest(complexity.complex_functions, flagged_now("complex_functions"), "complexity")
    /\ HoldsHighest(complexity.long_functions, flagged_now("long_functions"), "lines")
    /\ HoldsHighest(complexity.many_params, flagged_now("many_params"), "params")

\* the entries of a appear in b, in the same order
RECURSIVE IsSubsequence(_, _)
IsSubsequence(a, b) ==
  IF a = << >> THEN TRUE
  ELSE IF b = << >> THEN FALSE
  ELSE IF Head(a) = Head(b) THEN IsSubsequence(Tail(a), Tail(b))
  ELSE IsSubsequence(a, Tail(b))

\* the list is in non-increasing order of key, has at most n entries, and
\* its entries of equal key are in the order they have in met
SortedStableTop(list, met, key, n) ==
  /\ \A i \in 1..Len(list) : \A j \in i..Len(list) : list[i][key] >= list[j][key]
  /\ Len(list) <= n
  /\ \A i \in 1..Len(list) :
       IsSubsequence(SelectSeq(list, LAMBDA e : e[key] = list[i][key]),
                     SelectSeq(met, LAMBDA e : e[key] = list[i][key]))

\* C8: the offender lists that ComplexityScanner.scan returned and the list
\* of the largest files that generate built are in non-increasing order of
\* their metric, have at most 10 and 5 entries, and keep entries of equal
\* metric in the order in which they were met.
C8_ListsSortedStable ==
  /\ pc = "errors" =>
       /\ SortedStableTop(complexity.complex_functions, flagged_now("complex_functions"), "complexity", 10)
       /\ SortedStableTop(complexity.long_functions, flagged_now("long_functions"), "lines", 10)
       /\ SortedStableTop(complexity.many_params, flagged_now("many_params"), "params", 10)
  /\ pc = "write" => SortedStableTop(largest, files, "lines", 5)

\* the report has been generated for more than five files, two of the
\* largest have the same number of lines, and the parameter list was cut to
\* ten entries, two of which have the same count under different names
C8_Witness ==
  /\ pc = "write"
  /\ Len(files) > 5
  /\ Len(largest) = 5
  /\ \E i \in 1..5 : \E j \in (i + 1)..5 : largest[i].lines = largest[j].lines
  /\ Len(complexity.many_params) = 10
  /\ Len(flagged_now("many_params")) > 10
  /\ \E i \in 1..10 : \E j \in (i + 1)..10 :
       /\ complexity.many_params[i].params = complexity.many_params[j].params
       /\ complexity.many_params[i].function # complexity.many_params[j].function

\* the trimmed lines that are eligible for the duplicate table, over the
\* source files that can be read, one entry per occurrence
RECURSIVE eligible_lines(_, _)
eligible_lines(tree, fl) ==
  IF fl = << >> THEN << >>
  ELSE LET lines == SelectSeq(readlines(tree[Head(fl).path].content), dup_eligible)
       IN [k \in 1..Len(lines) |-> strip(lines[k])] \o eligible_lines(tree, Tail(fl))

eligible_now == eligible_lines(fs, readable_sources(fs, files))

\* the code_lines of the .ts/.js files of the list, summed
source_code_lines ==
  SumSeq([k \in 1..Len(files) |-> IF files[k].extension \in SourceExts THEN files[k].code_lines ELSE 0])

\* C5: CodeDuplicationScanner.scan returns a value; its duplication_percent
\* is 0 when the file list holds no .ts/.js file, and is
\* duplicate_lines / (code lines of the .ts/.js files) * 100, to the tenth
\* of a percent, when those files have code lines.
C5_PercentOrZero ==
  pc \in {"dependencies", "raised"} =>
    /\ "raised" \notin DOMAIN duplication
    /\ (\A k \in 1..Len(files) : files[k].extension \notin SourceExts) =>
         duplication.duplication_percent = 0
    /\ source_code_lines > 0 =>
         /\ 2 * (duplication.duplication_percent * source_code_lines
                   - 1000 * duplication.duplicate_lines) <= source_code_lines
         /\ 2 * (1000 * duplication.duplicate_lines
                   - duplication.duplication_percent * source_code_lines) <= source_code_lines

\* C10: when CodeDuplicationScanner.scan has returned, duplicate_lines is the
\* sum, over the groups of identical trimmed eligible lines, of the
\* occurrences of the group less one: the occurrences less the groups.
C10_DuplicatesPerGroup ==
  pc = "dependencies" =>
    duplication.duplicate_lines = Len(eligible_now) - Cardinality(Range(eligible_now))

\* two files hold the same line of 30 characters and the same line of 29
\* characters, and the scan has counted one duplicate
C10_Witness ==
  /\ pc = "dependencies"
  /\ \A p \in {<< "x.ts" >>, << "y.ts" >>} :
       p \in DOMAIN fs /\ fs[p].content = Text(<< Line30, Line29 >>, TRUE)
  /\ duplication.duplicate_lines = 1

\* C4: every call of ProjectAuditor.run reaches the step that writes the
\* report file, whatever the tree holds: no exception of a scanner ends run
\* before the report is generated.
C4_RunReachesWrite == (pc = "walk") ~> (pc = "write")

\* C9: the runs made in succession on the same root, with nothing but run
\* itself touching the tree, end with the same counts: files, lines, code
\* lines, per-extension statistics and detector counts.
C9_RunsCountTheSame ==
  \A i \in 1..Len(history) : \A j \in 1..Len(history) : history[i] = history[j]

\* the dicts of DependencyAnalyzer.analyze and of the five external scans
tool_results == << deps, eslint, npm_audit, depcheck, npm_outdated, tsconfig >>

\* C11: DependencyAnalyzer.analyze and the scan of every external tool
\* return a dict and never raise, whatever the subprocess does, and a run
\* that has come to them goes on to write its report.
C11_ToolsNeverAbort ==
  /\ [](\A k \in 1..Len(tool_results) : "raised" \notin DOMAIN tool_results[k])
  /\ ((pc = "dependencies") ~> (pc = "done"))

\* the report has been written although no tool could be run and neither
\* package.json nor tsconfig.json exists
C11_Witness ==
  /\ pc = "done"
  /\ deps = EmptyDict
  /\ \A k \in 2..Len(tool_results) : ~tool_results[k].available
  /\ toolchain.npm_audit.raises = "FileNotFoundError"
  /\ << "AUDIT_REPORT.txt" >> \in DOMAIN fs

\* the tool ran and printed nothing, or printed what json.loads rejects
unparsable(outcome) ==
  outcome.raises = "" /\ (no_output(outcome) \/ json_loads(outcome.stdout).t = "JSONDecodeError")

\* available is False and the error text is not empty
reports_unavailable(result) == ~result.available /\ result.error # ""

\* C12: when npm audit, depcheck, npm outdated or ESLint prints nothing or
\* prints a text that is no JSON, its scan returns available == False with
\* a non-empty error text.
C12_UnparsableIsUnavailable ==
  /\ (npm_audit # None /\ unparsable(toolchain.npm_audit)) => reports_unavailable(npm_audit)
  /\ (depcheck # None /\ unparsable(toolchain.depcheck)) => reports_unavailable(depcheck)
  /\ (npm_outdated # None /\ unparsable(toolchain.npm_outdated)) => reports_unavailable(npm_outdated)
  /\ (/\ eslint # None
      /\ toolchain.eslint_version.raises = ""
      /\ toolchain.eslint_version.returncode = 0
      /\ unparsable(toolchain.eslint)) => reports_unavailable(eslint)

\* the same for npm audit and depcheck alone
C12_AuditAndDepcheckUnavailable ==
  /\ (npm_audit # None /\ unparsable(toolchain.npm_audit)) => reports_unavailable(npm_audit)
  /\ (depcheck # None /\ unparsable(toolchain.depcheck)) => reports_unavailable(depcheck)

\* the records of the list whose file can still be opened
still_readable == SelectSeq(files, LAMBDA f : fs[f.path].readable)

\* the detectors that have returned, each with what its scan returns for
\* the list fl
returned_as(fl) ==
  /\ pc \notin {"walk", "security"} => security_issues = security_scan(fs, fl, << >>)
  /\ quality # None => quality = quality_scan(fs, fl)
  /\ complexity # None => complexity = complexity_result(analyze_each(fs, readable_sources(fs, fl)))
  /\ errors # None => errors = error_scan(fs, fl)
  /\ performance # None => performance = performance_scan(fs, fl)
  /\ documentation # None => documentation = documentation_scan(fs, fl)
  /\ duplication # None => duplication = duplication_scan(fs, fl)

C13_FindingsIsolated ==
  /\ pc \notin {"walk", "security"} => security_issues = security_scan(fs, still_readable, << >>)
  /\ quality # None => quality = quality_scan(fs, still_readable)
  /\ complexity # None =>
       complexity = complexity_result(analyze_each(fs, readable_sources(fs, still_readable)))
  /\ errors # None => errors = error_scan(fs, still_readable)
  /\ performance # None => performance = performance_scan(fs, still_readable)
  /\ documentation # None => documentation = documentation_scan(fs, still_readable)
  /\ (duplication # None /\ still_readable # << >>) =>
       duplication.duplicate_lines = duplication_scan(fs, still_readable).duplicate_lines

\* the records of the list that belong to the paths of P
records_of(P) == {k \in 1..Len(files) : files[k].path \in P}

\* the list and the statistics hold the files of P that have a line, and
\* nothing else
only_counted(P) ==
  /\ \A k \in 1..Len(files) : files[k].path \in P
  /\ \A p \in P : readlines(decode_ignore(fs[p].content)) # << >> => records_of({p}) # {}
  /\ \A e \in DOMAIN stats_by_ext :
       /\ stats_by_ext[e].files = Cardinality({k \in records_of(P) : files[k].extension = e})
       /\ stats_by_ext[e].lines =
            SumSeq([k \in 1..Len(files) |->
                      IF k \in records_of(P) /\ files[k].extension = e THEN files[k].lines ELSE 0])

\* C14: when CodeScanner.scan has returned, a file that cannot be opened or
\* whose bytes are no valid text has no record in the list and no share in
\* stats_by_ext, and the other files are all recorded.
C14_UnreadableYieldsNoRecord ==
  pc = "security" =>
    only_counted({p \in DOMAIN fs : fs[p].readable /\ Undecodable \notin Range(fs[p].content)})

\* the same for the files that cannot be opened alone
C14_UnopenableYieldsNoRecord ==
  pc = "security" => only_counted({p \in DOMAIN fs : fs[p].readable})

\* C15: DocumentationScanner.scan returns a dict whose coverage_percent is
\* exactly 0 when no function-like declaration was counted, whatever the
\* number of doc-comment blocks, and else is
\* documented_functions / total_functions * 100 rounded to one decimal: the
\* tenth of a percent nearest to the quotient.
C15_CoverageZeroOrRounded ==
  documentation # None =>
    /\ "coverage_tenths" \in DOMAIN documentation
    /\ documentation.total_functions = 0 => documentation.coverage_tenths = 0
    /\ documentation.total_functions > 0 =>
         \E away \in {documentation.coverage_tenths * documentation.total_functions
                        - 1000 * documentation.documented_functions} :
           /\ 2 * away <= documentation.total_functions
           /\ 2 * away >= 0 - documentation.total_functions

\* the scan has counted doc-comment blocks and no function, and returned 0
C15_Witness ==
  /\ documentation # None
  /\ documentation.total_functions = 0
  /\ documentation.documented_functions > 0
  /\ documentation.coverage_tenths = 0

\* C15 as stated: with functions counted, coverage_percent is the quotient
\* documented_functions / total_functions * 100 itself
C15_CoverageIsTheQuotient ==
  documentation # None =>
    /\ documentation.total_functions = 0 => documentation.coverage_tenths = 0
    /\ documentation.total_functions > 0 =>
         documentation.coverage_tenths * documentation.total_functions
           = 1000 * documentation.documented_functions

\* the occurrences of the word w in s that are no part of a longer word
keyword_count(s, w) ==
  Cardinality({i \in 0..(Len(s) - Len(w)) :
                 StartsAt(s, w, i) /\ WordBoundary(s, i) /\ WordBoundary(s, i + Len(w))})

\* the branch keywords of a span: if, else, case, for, while, catch, && and ||
branch_keywords(s) ==
  keyword_count(s, <<"i", "f">>) + keyword_count(s, <<"e", "l", "s", "e">>) + keyword_count(s, <<"c", "a", "s", "e">>)
    + keyword_count(s, <<"f", "o", "r">>) + keyword_count(s, <<"w", "h", "i", "l", "e">>) + keyword_count(s, <<"c", "a", "t", "c", "h">>)
    + count(s, <<"&", "&">>) + count(s, <<"|", "|">>)

\* the span of the match m: from its start to what _find_function_end returns
span_of(content, m) == PySlice(content, m.start, _find_function_end(content, m.start))

\* the contents of the files ComplexityScanner.scan has read
scanned_contents == {fs[f.path].content : f \in Range(readable_sources(fs, files))}

\* C16: once ComplexityScanner.scan has returned, the complexity it has
\* measured of every function span is 1 plus the number of branch keywords
\* of the span, however they are written and without the occurrences inside
\* longer identifiers.
C16_ComplexityCountsKeywords ==
  complexity # None =>
    \A content \in scanned_contents :
      \A m \in Range(func_finditer(content, 0)) :
        measure(content, m).complexity = 1 + branch_keywords(span_of(content, m))

\* the same for the spans in which every keyword is written as the code
\* looks for it: followed by a space, and after a character that is no part
\* of a word
C16_SpacedKeywordsCounted ==
  complexity # None =>
    \A content \in scanned_contents :
      \A m \in Range(func_finditer(content, 0)) :
        (\A w \in {<<"i", "f">>, <<"e", "l", "s", "e">>, <<"c", "a", "s", "e">>, <<"f", "o", "r">>, <<"w", "h", "i", "l", "e">>, <<"c", "a", "t", "c", "h">>} :
           keyword_count(span_of(content, m), w) = count(span_of(content, m), w \o << " " >>))
          => measure(content, m).complexity = 1 + branch_keywords(span_of(content, m))

\* C17: every finding of SecurityScanner.scan carries a snippet of at most
\* 40 characters, whatever the length of the matched text.
C17_SnippetAtMostForty ==
  \A k \in 1..Len(security_issues) : Len(security_issues[k].snippet) <= 40

\* the scan has found a quoted secret whose match is longer than 40
\* characters: the snippet is the first 40 and stops before the closing quote
C17_Witness ==
  /\ pc = "quality"
  /\ \E k \in 1..Len(security_issues) :
       /\ security_issues[k].type = "hardcoded-secret"
       /\ Len(security_issues[k].snippet) = 40
       /\ security_issues[k].snippet[40] \notin {"'", "\""}
       /\ count(fs[security_issues[k].file].content, security_issues[k].snippet \o << "2" >>) = 1

\* the end of the window _find_function_end scans from start
window_end(content, start) == IF start + 5000 < Len(content) THEN start + 5000 ELSE Len(content)

\* the offsets of the window from start at which the character c stands
offsets_of(content, start, c) ==
  {i \in start..(window_end(content, start) - 1) : content[i + 1] = c}

\* the offsets of the closing braces of the window that close the brace at
\* offset open: as many "}" as "{" from open to them
closers_of(content, start, open) ==
  {i \in offsets_of(content, start, "}") :
     /\ i > open
     /\ Cardinality({j \in offsets_of(content, start, "{") : j >= open /\ j < i})
          = Cardinality({j \in offsets_of(content, start, "}") : j > open /\ j <= i})}

\* _find_function_end returns the offset after the brace that closes the
\* first "{" of the window from start, when both are in the window
ends_at_matching_brace(content, start) ==
  \A open \in {SetMin(offsets_of(content, start, "{") \cup {Len(content)})} :
    closers_of(content, start, open) # {} =>
      _find_function_end(content, start) = SetMin(closers_of(content, start, open)) + 1

\* C18: for every match ComplexityScanner.scan has measured,
\* _find_function_end(content, start) is the index just past the closing
\* brace that matches the first opening brace at or after start, whenever
\* that brace lies within the window, a closing brace before the first
\* opening brace or not.
C18_EndsAtMatchingBrace ==
  complexity # None =>
    \A content \in scanned_contents :
      \A m \in Range(func_finditer(content, 0)) : ends_at_matching_brace(content, m.start)

\* the same for the matches with no closing brace between their start and
\* the first opening brace
C18_EndsAtMatchingBraceWhenOpenedFirst ==
  complexity # None =>
    \A content \in scanned_contents :
      \A m \in Range(func_finditer(content, 0)) :
        (\A i \in offsets_of(content, m.start, "}") : \E j \in offsets_of(content, m.start, "{") : j < i)
          => ends_at_matching_brace(content, m.start)

\* the braces balance inside the window from start: at some offset of the
\* window as many "}" as "{" have been met, and at least one
balanced_in_window(content, start) ==
  \E i \in offsets_of(content, start, "}") :
    /\ \E j \in offsets_of(content, start, "{") : j < i
    /\ Cardinality({j \in offsets_of(content, start, "{") : j < i})
         = Cardinality({j \in offsets_of(content, start, "}") : j <= i})

\* C19: for every match ComplexityScanner.scan has measured, the result e of
\* _find_function_end(content, start) satisfies
\* start <= e <= min(start + 5000, len(content)), and is exactly
\* min(start + 5000, len(content)) when the braces do not balance inside
\* the window.
C19_EndWithinWindow ==
  complexity # None =>
    \A content \in scanned_contents :
      \A m \in Range(func_finditer(content, 0)) :
        /\ m.start <= _find_function_end(content, m.start)
        /\ _find_function_end(content, m.start) <= m.start + 5000
        /\ _find_function_end(content, m.start) <= Len(content)
        /\ ~balanced_in_window(content, m.start) =>
             _find_function_end(content, m.start) = window_end(content, m.start)

\* the scan has measured a function whose closing brace stands beyond the
\* window: the span ends 5000 characters after the start, before the end of
\* the content
C19_Witness ==
  /\ complexity # None
  /\ \E content \in scanned_contents :
       \E m \in Range(func_finditer(content, 0)) :
         /\ m.start > 0
         /\ m.start + 5000 < Len(content)
         /\ ~balanced_in_window(content, m.start)
         /\ _find_function_end(content, m.start) = m.start + 5000

\* the offset of the "(" that opens the parameter list of the match m: the
\* first of the match, else the one that follows the match; -1 without one
params_open(content, m) ==
  IF count(PySlice(content, m.start, m.end), << "(" >>) > 0 THEN PyFind(content, << "(" >>, m.start)
  ELSE IF StartsAt(content, << "(" >>, RunEnd(content, Whitespace, m.end))
       THEN RunEnd(content, Whitespace, m.end)
  ELSE -1

\* the text between the parentheses of the parameter list
params_text(content, open) ==
  IF open < 0 \/ PyFind(content, << ")" >>, open) < 0 THEN << >>
  ELSE PySlice(content, open + 1, PyFind(content, << ")" >>, open))

\* the number of parameters in the parameter list of the match m
declared_params(content, m) ==
  IF strip(params_text(content, params_open(content, m))) = << >> THEN 0
  ELSE count(params_text(content, params_open(content, m)), << "," >>) + 1

\* the names of the matches of ms that P selects, and of a list of entries
names_where(ms, P(_)) == [k \in 1..Len(SelectSeq(ms, P)) |-> SelectSeq(ms, P)[k].name]

names_of(entries) == [k \in 1..Len(entries) |-> entries[k].function]

\* C20: in every file ComplexityScanner.scan has read, the declarations
\* flagged as over-parameterized are exactly those whose parameter list
\* holds more than 5 parameters, whatever the form of the signature; those
\* flagged as complex are exactly those whose complexity exceeds 10 and
\* those flagged as long exactly those whose body line count exceeds 50.
C20_FlaggedExactlyOverThresholds ==
  complexity # None =>
    \A content \in scanned_contents :
      /\ names_of(flagged(content).many_params)
           = names_where(func_finditer(content, 0), LAMBDA m : declared_params(content, m) > 5)
      /\ names_of(flagged(content).complex_functions)
           = names_where(func_finditer(content, 0), LAMBDA m : measure(content, m).complexity > 10)
      /\ names_of(flagged(content).long_functions)
           = names_where(func_finditer(content, 0),
                         LAMBDA m : count(span_of(content, m), << "\n" >>) > 50)

\* the same for the files whose matches hold their parameter list and no
\* type annotation
C20_FlaggedWhenListInMatch ==
  complexity # None =>
    \A content \in scanned_contents :
      (\A m \in Range(func_finditer(content, 0)) :
         /\ count(PySlice(content, m.start, m.end), << "(" >>) = 1
         /\ count(PySlice(content, m.start, m.end), << ":" >>) = 0)
        => /\ names_of(flagged(content).many_params)
                = names_where(func_finditer(content, 0), LAMBDA m : declared_params(content, m) > 5)
           /\ names_of(flagged(content).complex_functions)
                = names_where(func_finditer(content, 0), LAMBDA m : measure(content, m).complexity > 10)
           /\ names_of(flagged(content).long_functions)
                = names_where(func_finditer(content, 0),
                              LAMBDA m : count(span_of(content, m), << "\n" >>) > 50)

\* the line is none of those C21 leaves out: after trimming it is not
\* empty, no comment, not a brace alone and not shorter than 30 characters
table_line(line) ==
  /\ strip(line) # << >>
  /\ ~startswith(strip(line), {<<"/", "/">>, <<"/", "*">>, <<"*">>})
  /\ strip(line) \notin {<< "{" >>, << "}" >>}
  /\ Len(strip(line)) >= 30

\* the trimmed lines C21 enters in the table, one entry per occurrence
RECURSIVE table_lines(_, _)
table_lines(tree, fl) ==
  IF fl = << >> THEN << >>
  ELSE LET lines == SelectSeq(readlines(tree[Head(fl).path].content), table_line)
       IN [k \in 1..Len(lines) |-> strip(lines[k])] \o table_lines(tree, Tail(fl))

table_now == table_lines(fs, readable_sources(fs, files))

\* C21: CodeDuplicationScanner.scan leaves out of the duplicate table
\* exactly the lines that, trimmed, are empty, comment-only, a brace alone
\* or shorter than 30 characters, and enters every other line under its
\* trimmed content: duplicate_lines is the number of occurrences of those
\* lines less the number of distinct ones.
C21_TableHoldsAllButNoise ==
  pc = "dependencies" =>
    duplication.duplicate_lines = Len(table_now) - Cardinality(Range(table_now))

\* the same for the trees in which no line begins with a brace
C21_TableWithoutBraceLines ==
  (pc = "dependencies"
     /\ \A p \in DOMAIN fs : \A k \in 1..Len(readlines(fs[p].content)) :
          ~startswith(strip(readlines(fs[p].content)[k]), {<< "{" >>, << "}" >>}))
    => duplication.duplicate_lines = Len(table_now) - Cardinality(Range(table_now))

\* the lists that hold the records of fl in another order
reordered(fl) == {[k \in 1..Len(fl) |-> fl[p[k]]] : p \in Permutations(1..Len(fl))}

\* C22: the duplicate_lines CodeDuplicationScanner.scan has returned is the
\* one it returns for every permutation of the file list.
C22_DuplicatesOrderIndependent ==
  pc = "dependencies" =>
    \A fl \in reordered(files) :
      duplication_scan(fs, fl).duplicate_lines = duplication.duplicate_lines

\* the scan has counted duplicates over three files that do not all hold
\* the same text, the first and the last of which share a line the second
\* does not hold
C22_Witness ==
  /\ pc = "dependencies"
  /\ Len(files) = 3
  /\ duplication.duplicate_lines > 0
  /\ count(fs[files[1].path].content, Line34) = 1
  /\ count(fs[files[2].path].content, Line34) = 0
  /\ count(fs[files[3].path].content, Line34) = 1

\* the text without the lines whose trimmed form begins with a comment marker
uncommented(content) ==
  Flatten(SelectSeq(readlines(content), LAMBDA line : ~in_comment(line)))

\* the tree whose files hold the lines that are no comment
uncommented_tree(tree) ==
  [p \in DOMAIN tree |-> File(uncommented(tree[p].content), tree[p].readable)]

\* C23: the counts QualityScanner (ts-ignore, any-type), ErrorHandlingScanner
\* and PerformanceScanner have returned are those of the matches that occur
\* on no comment line: a match on a line whose trimmed form begins with a
\* comment marker adds nothing.
C23_CommentMatchesDiscarded ==
  /\ quality # None =>
       /\ quality.ts_ignores = quality_scan(uncommented_tree(fs), files).ts_ignores
       /\ quality.any_types = quality_scan(uncommented_tree(fs), files).any_types
  /\ errors # None => errors = error_scan(uncommented_tree(fs), files)
  /\ performance # None => performance = performance_scan(uncommented_tree(fs), files)

\* the same for the trees without a match on a comment line: the counts are
\* those of the code lines
C23_CodeLineMatchesCounted ==
  (\A p \in DOMAIN fs : fs[p].content # CommentedText)
    => C23_CommentMatchesDiscarded

\* no two records of the list have the same path
paths_unique == \A i \in 1..Len(files) : \A j \in 1..Len(files) : files[i].path = files[j].path => i = j

\* C24: whenever CodeScanner.scan has returned, on the first call or on a
\* second call on the same instance, no path has two records in the list;
\* whenever SecurityScanner.scan has returned, on the first call or on a
\* second call on the same instance with the same list, the findings are
\* those of one scan of the list.
C24_ScansRepeatable ==
  /\ pc = "security" => paths_unique
  /\ pc = "quality" => security_issues = security_scan(fs, files, << >>)

\* the same for the first call on each instance
C24_FirstScans ==
  runNo = 1 => C24_ScansRepeatable

\* the findings alone: a second scan on the same SecurityScanner returns
\* the findings of one scan
C24_FindingsRepeatable ==
  (pc = "quality" /\ paths_unique) => security_issues = security_scan(fs, files, << >>)

\* the paths of the .ts/.js records whose file can be read
eligible_paths == {f.path : f \in Range(readable_sources(fs, files))}

\* the eligible paths whose file holds at least one match of the kind
holding(name) ==
  {p \in eligible_paths : findall_count(match_ends(name, fs[p].content), 0) >= 1}

\* C25: for each kind of PerformanceScanner.scan the count is the number of
\* distinct eligible files that hold at least one match of the kind, never
\* more than the number of eligible files, and the list of the kind holds
\* exactly those paths in increasing order.
C25_CountsFilesNotMatches ==
  performance # None =>
    \A k \in 1..Len(PERFORMANCE_PATTERNS) :
      /\ performance.counts[k] = Cardinality(holding(PERFORMANCE_PATTERNS[k]))
      /\ performance.counts[k] <= Cardinality(eligible_paths)
      /\ Range(performance.paths[k]) = holding(PERFORMANCE_PATTERNS[k])
      /\ \A i \in 1..Len(performance.paths[k]) : \A j \in (i + 1)..Len(performance.paths[k]) :
           str_less(path_str(performance.paths[k][i]), path_str(performance.paths[k][j]))

\* w.ts and x.ts each hold two loops that await: the count is 2 and the
\* list names w.ts before x.ts
C25_Witness ==
  /\ performance # None
  /\ performance.counts[1] = 2
  /\ performance.paths[1] = << << "w.ts" >>, << "x.ts" >> >>
  /\ findall_count(match_ends("await-in-loop", fs[<< "x.ts" >>].content), 0) = 2
  /\ findall_count(match_ends("await-in-loop", fs[<< "w.ts" >>].content), 0) = 2

\* the class of a line: blank when nothing but white space, else comment
\* when its first characters that are no white space are "//", "#" or "/*",
\* else code
line_class(l) ==
  IF \A i \in 1..Len(l) : l[i] \in Whitespace THEN "blank"
  ELSE LET first == SetMin({i \in 1..Len(l) : l[i] \notin Whitespace})
       IN IF l[first] = "#" THEN "comment"
          ELSE IF first < Len(l) /\ l[first] = "/" /\ l[first + 1] \in {"/", "*"} THEN "comment"
          ELSE "code"

\* the number of lines of the file of record r that are of class c
lines_of_class(r, c) ==
  Cardinality({k \in 1..Len(readlines(decode_ignore(fs[r.path].content))) :
                 line_class(readlines(decode_ignore(fs[r.path].content))[k]) = c})

\* C26: in every record analyze_file returned, blank_lines, comment_lines
\* and code_lines are the numbers of lines of the file that are blank,
\* comment and code, each line being of one class; a code line with a
\* trailing comment is a code line.
C26_LinesClassified ==
  \A r \in FileList :
    /\ r.blank_lines = lines_of_class(r, "blank")
    /\ r.comment_lines = lines_of_class(r, "comment")
    /\ r.code_lines = lines_of_class(r, "code")

\* the record of a file whose lines are a code line with a trailing
\* comment, a comment line and a blank line
C26_Witness ==
  \E r \in FileList :
    /\ count(fs[r.path].content, <<"x", " ", "/", "/", "c", "\n">>) = 1
    /\ r.lines = 3
    /\ r.code_lines = 1
    /\ r.comment_lines = 1
    /\ r.blank_lines = 1

\* C27: in the result of PerformanceScanner.scan, total_issues is the sum of
\* the eight counts of the same result.
C27_TotalIsSumOfCounts ==
  performance # None => performance.total_issues = SumSeq(performance.counts)

\* total_issues is the sum of the counts of the first seven kinds
C27_TotalIsSumOfSeven ==
  performance # None =>
    performance.total_issues = SumSeq(SubSeq(performance.counts, 1, 7))

\* the records of the list with extension e
records_with(e) == {k \in 1..Len(files) : files[k].extension = e}

\* the sum of the field of the records of the list with their number in K
sum_over(K, field) == SumSeq([k \in 1..Len(files) |-> IF k \in K THEN files[k][field] ELSE 0])

\* the sum of the field of stats_by_ext over the extensions of E
RECURSIVE stats_sum(_, _)
stats_sum(E, field) ==
  IF E = {} THEN 0
  ELSE stats_by_ext[CHOOSE e \in E : TRUE][field] + stats_sum(E \ {CHOOSE e \in E : TRUE}, field)

stats_total(field) == stats_sum(DOMAIN stats_by_ext, field)

\* C28: while and after a fresh CodeScanner scans, stats_by_ext agrees with
\* the file list: its extensions are those of the records, and for each of
\* them files, lines and code are the number, the summed lines and the
\* summed code_lines of the records with the extension; the sums over the
\* extensions are len(files) and the totals over the records; no record has
\* lines == 0.
C28_StatsAgreeWithFiles ==
  /\ DOMAIN stats_by_ext = {files[k].extension : k \in 1..Len(files)}
  /\ \A e \in DOMAIN stats_by_ext :
       /\ stats_by_ext[e].files = Cardinality(records_with(e))
       /\ stats_by_ext[e].lines = sum_over(records_with(e), "lines")
       /\ stats_by_ext[e].code = sum_over(records_with(e), "code_lines")
  /\ stats_total("files") = Len(files)
  /\ stats_total("lines") = sum_over(1..Len(files), "lines")
  /\ stats_total("code") = sum_over(1..Len(files), "code_lines")
  /\ \A k \in 1..Len(files) : files[k].lines # 0

\* the scan has returned the records of two files with different
\* extensions and has left out a file that can be read and has no line
C28_Witness ==
  /\ pc = "security"
  /\ Len(files) = 2
  /\ Cardinality(DOMAIN stats_by_ext) = 2
  /\ \A e \in DOMAIN stats_by_ext : stats_by_ext[e].files = 1 /\ stats_by_ext[e].lines > 0
  /\ \E p \in DOMAIN fs : fs[p].readable /\ readlines(decode_ignore(fs[p].content)) = << >>

\* C29: in the result of DocumentationScanner.scan, documented_functions is
\* at most total_functions and coverage_percent lies between 0 and 100.
C29_CoverageWithinBounds ==
  documentation # None =>
    /\ documentation.documented_functions <= documentation.total_functions
    /\ documentation.coverage_tenths >= 0
    /\ documentation.coverage_tenths <= 1000

\* coverage_percent is never negative
C29_CoverageNotNegative ==
  documentation # None => documentation.coverage_tenths >= 0

\* the sum of the field of stats over the extensions of E
RECURSIVE line_stats_sum(_, _)
line_stats_sum(E, field) ==
  IF E = {} THEN 0
  ELSE stats[CHOOSE e \in E : TRUE][field] + line_stats_sum(E \ {CHOOSE e \in E : TRUE}, field)

\* the files of the tree that main is to count: no component of the path
\* main builds for them, root_dir included, is in EXCLUDE_DIRS, the name is
\* not in EXCLUDE_FILES, and the file can be read and has at least one line
to_be_counted ==
  {p \in DOMAIN fs :
     /\ \A i \in 1..Len(root \o p) : (root \o p)[i] \notin COUNT_EXCLUDE_DIRS
     /\ p[Len(p)] \notin COUNT_EXCLUDE_FILES
     /\ fs[p].readable
     /\ readlines(decode_ignore(fs[p].content)) # << >>}

\* C30: in count-lines.py main, total_lines is the sum of stats[ext].lines
\* and total_files the sum of stats[ext].files over all extensions, and
\* after the walk a file has been counted if and only if no component of
\* its path is in EXCLUDE_DIRS, its name is not in EXCLUDE_FILES, and it
\* has at least one line, a file that cannot be read having none.
C30_TotalsAndCountedFiles ==
  /\ total_lines = line_stats_sum(DOMAIN stats, "lines")
  /\ total_files = line_stats_sum(DOMAIN stats, "files")
  /\ total_files = Cardinality(counted)
  /\ counted \subseteq to_be_counted
  /\ pc = "sorted_stats" => counted = to_be_counted

\* the walk has ended with two files of one extension counted, three lines
\* in all, and with a lock file of one line or more left out
C30_Witness ==
  /\ pc = "sorted_stats"
  /\ total_files = 2
  /\ total_lines = 3
  /\ DOMAIN stats = {".ts"}
  /\ \E p \in DOMAIN fs :
       /\ p[Len(p)] = "yarn.lock"
       /\ fs[p].readable
       /\ fs[p].content # << >>
       /\ p \notin counted

====
